---- MODULE Spec2Model ----
(***************************************************************************)
(* Model of the gamification ledger (src/src/backend/gamification_engine.py)*)
(* and of the quiz flow of the backend facade (src/src/backend/main.py,     *)
(* src/src/backend/quiz_generator.py).                                      *)
(*                                                                          *)
(* Conventions                                                              *)
(*  - A datetime is modelled by its calendar day (an integer); the only     *)
(*    use the code makes of last_activity is `.date()`.                     *)
(*  - Python floats are modelled by exact rationals [n, d] (d > 0).  For    *)
(*    the amounts, multipliers and streaks (< 11) of this model the         *)
(*    truncation int(x) of the IEEE double equals the truncation of the     *)
(*    exact rational.                                                       *)
(*  - A percentage handed around after round(p, 1) is an integer number of  *)
(*    tenths of a percent (80.0 -> 800).                                    *)
(***************************************************************************)
EXTENDS Integers, Sequences, FiniteSets, TLC

VARIABLES
    student,          \* GamificationEngine.current_student (StudentProfile)
    today,            \* calendar day returned by datetime.now().date()
    call,             \* the last event: an operation and its result, or midnight
    current_session,  \* AgenticTutorBackend.current_session
    student_progress, \* QuizGenerator.student_progress
    game_state,       \* the global GameState of the REST API (src/backend/api.py)
    requests,         \* the REST requests in progress, one per worker thread
    files,            \* cache_dir: gamification.json and quiz_progress.json
    attention_monitor, \* the AttentionMonitor object's fields
    loops,            \* position of each _monitoring_loop thread
    caller            \* position of the thread calling start/stop_monitoring

vars ==
    <<student, today, call, current_session, student_progress, game_state,
      requests, files, attention_monitor, loops, caller>>

(***************************************************************************)
(* Bounds of the model                                                      *)
(***************************************************************************)
MaxDay == 8          \* the clock stops advancing at this day
MaxLoops == 3        \* start_monitoring is offered while fewer threads were created
MaxCoins == 125      \* award_coins is offered while total_coins <= MaxCoins
MaxQuizzes == 1      \* "quiz" activities are offered while total_quizzes < MaxQuizzes
MaxVideos == 1       \* "video" activities are offered while total_videos < MaxVideos
MaxStudy == 30       \* "study" activities are offered while study_minutes < MaxStudy
MaxSessions == 2     \* create_quiz is offered while total_quizzes < MaxSessions
MaxScored == 2       \* score_quiz is offered while fewer quizzes are on record
MaxQuestions == 10   \* percentages are those of quizzes of up to MaxQuestions questions
MaxHistory == 11     \* quizzes scored for one subject and grade in SpecWindow
MaxPool == 4         \* _select_questions is applied to pools of up to MaxPool questions
MaxStudents == 3     \* the leaderboard is computed for up to MaxStudents profiles

(***************************************************************************)
(* Inputs the callers supply                                                *)
(***************************************************************************)
AwardAmounts == {0, 25}
SpendAmounts == {0, 50, 60}
PerkInputs == {"lucky_charm", "double_coins", "no_such_perk"}
StudyMinutes == {0, 30}
ActivityScores == {0, 850}  \* tenths of a percent
ActivityTypes == {"quiz", "study"}
ClockActivityTypes == {"video", "study"}
\* amounts that land experience_points on both sides of a level requirement
LevelAmounts == {0, 49, 50, 199, 200, 490049, 490050, 499999, 500000} 
LuckyOutcomes == {0, 10}  \* 0: random.random() >= 0.1; else randint(10, 50)
SessionGrades == {"5th", "7th"}
SessionBoards == {"ICSE"}
SessionSubjects == {"Math", "Hindi"}  \* "Hindi" has no question bank
QuizDifficulties == {"auto", "medium"}
QuizLengths == {2, 5}
GenerateGrades == {"5th", "6th", "7th", "8th"}
GenerateSubjects == {"Math", "Science", "Hindi"}  \* there is no Hindi bank
GenerateDifficulties == {"auto", "easy", "medium", "hard"}
GenerateLengths == {-1, 0, 2, 3, 5, 12}
GenerateTopics == {<<>>, <<"Fractions", "Geometry", "Algebra">>, <<"Sound">>}
SavedAwards == {25}
SavedSpends == {60}
SavedActivities == {"quiz"}
SavedAnswers == {<<>>, <<0, 1>>}
LeaderboardLedgers ==
    { [total_coins |-> 100, level |-> 1, experience_points |-> 0,
       streak_days |-> 2, total_quizzes |-> 5],
      [total_coins |-> 150, level |-> 2, experience_points |-> 50,
       streak_days |-> 0, total_quizzes |-> 1],
      [total_coins |-> 150, level |-> 2, experience_points |-> 60,
       streak_days |-> 3, total_quizzes |-> 1] }
LeaderboardMetrics ==  \* "coins" is no metric the code knows
    {"total_coins", "level", "streak_days", "quizzes", "coins"}
LeaderboardLimits == {1, 10}
WindowAnswers == {<<>>, <<0, 1>>}
PoolTopics == {"Addition", "Fractions", "Geometry"}
PoolQuestionIds == <<"q1", "q2", "q3", "q4", "q5", "q6", "q7", "q8">>
TierDifficulties == {"easy", "medium", "hard", "expert"}  \* "expert" is no tier
AddAmounts == {20, 50}    \* complete_video_watching, calculate_quiz_score
PerkIndexes == {1, 5, 6}  \* perk_index of a buy_perk request; 6 is no perk
AnswerInputs ==
    {<<>>, <<0, 1>>, <<0, 1, 1>>, <<1, 0, 0, 0>>}
ScoringAnswers == AnswerInputs \cup {<<0, 1, 0, 0, 0>>, <<0, 1, 0, 0, 1>>}

Mult(name, n, d) == [name |-> name, n |-> n, d |-> d]

MultiplierInputs ==
    { <<>>,
      <<Mult("perfect_score", 2, 1)>>,
      <<Mult("quiz_completion", 3, 2)>>,
      <<Mult("weekend_special", 3, 1)>> }

(***************************************************************************)
(* Static catalogs                                                          *)
(***************************************************************************)
Ach(id, key, value, reward) ==
    [id |-> id, key |-> key, value |-> value, reward_coins |-> reward]

\* _initialize_achievements, in dict (insertion) order
achievements ==
    << Ach("first_quiz", "quizzes_completed", 1, 25),
       Ach("quiz_master", "quizzes_completed", 50, 200),
       Ach("perfect_score", "perfect_quiz", 1, 50),
       Ach("streak_week", "streak_days", 7, 75),
       Ach("streak_month", "streak_days", 30, 300),
       Ach("math_expert", "subject_mastery", 10, 150),
       Ach("science_expert", "subject_mastery", 10, 150),
       Ach("attention_champion", "attention_mastery", 30, 100),
       Ach("early_bird", "early_study_days", 5, 75),
       Ach("coin_collector", "total_coins", 1000, 100),
       Ach("video_enthusiast", "videos_watched", 25, 75) >>

AchievementIds == {achievements[i].id : i \in 1..Len(achievements)}

reward_coins(id) ==
    LET i == CHOOSE j \in 1..Len(achievements) : achievements[j].id = id
    IN  achievements[i].reward_coins

\* _initialize_perks: perk id -> cost
perks ==
    [ golden_star |-> 50, superhero_avatar |-> 100, speed_boost |-> 75,
      hint_helper |-> 30, rainbow_theme |-> 80, music_mode |-> 60,
      double_coins |-> 200, skip_question |-> 40, lucky_charm |-> 90,
      study_streak_shield |-> 150 ]

\* self.coin_multipliers (only the names are ever read)
coin_multipliers ==
    {"quiz_completion", "perfect_score", "streak_bonus", "daily_challenge",
     "attention_bonus"}

(***************************************************************************)
(* Helpers                                                                  *)
(***************************************************************************)
Contains(seq, x) == \E i \in 1..Len(seq) : seq[i] = x

NoDuplicates(seq) ==
    \A i, j \in 1..Len(seq) : i # j => seq[i] # seq[j]

IsPrefix(s, t) == Len(s) <= Len(t) /\ SubSeq(t, 1, Len(s)) = s

RECURSIVE SumRewards(_)
SumRewards(ids) ==
    IF ids = <<>> THEN 0 ELSE reward_coins(Head(ids)) + SumRewards(Tail(ids))

Min(a, b) == IF a <= b THEN a ELSE b

\* Python int(x) of the rational n/d (d > 0): truncation toward zero
Trunc(n, d) == IF n >= 0 THEN n \div d ELSE -((-n) \div d)

(***************************************************************************)
(* GamificationEngine                                                       *)
(***************************************************************************)
\* _get_or_create_student: the profile of a new student
NewStudent(now) ==
    [ total_coins |-> 100, current_coins |-> 100, level |-> 1,
      experience_points |-> 0, streak_days |-> 0, longest_streak |-> 0,
      total_quizzes |-> 0, total_videos |-> 0, study_minutes |-> 0,
      achievements |-> <<>>, owned_perks |-> <<>>, last_activity |-> now ]

\* _calculate_level_requirements: the dict {1: 0, 2: 50, ..., 100: 490050}
level_requirements ==
    [level \in 1..100 |-> IF level = 1 THEN 0 ELSE (level - 1) * (level - 1) * 50]

\* variant of _calculate_level: a requirement counts only once exceeded
_calculate_level_strict(experience) ==
    LET met == {level \in DOMAIN level_requirements :
                   experience > level_requirements[level]}
    IN  IF met = {} THEN 1
        ELSE CHOOSE level \in met : \A other \in met : other <= level

\* _calculate_level: the first level, from 100 down to 1, whose requirement
\* the experience meets (the largest such level); 1 when there is none
_calculate_level(experience) ==
    LET met == {level \in DOMAIN level_requirements :
                   experience >= level_requirements[level]}
    IN  IF met = {} THEN 1
        ELSE CHOOSE level \in met : \A other \in met : other <= level

\* variant of _award_experience: the level is recomputed from the amount of
\* this award and stored whatever the old level
_award_experience_reset(s, amount) ==
    LET new_level == _calculate_level(amount)
        s1 == [s EXCEPT !.experience_points = @ + amount]
    IN  IF new_level # s.level
        THEN [s1 EXCEPT !.level = new_level,
                        !.current_coins = @ + new_level * 20]
        ELSE s1

\* variant of _award_experience: the level bonus is credited to total_coins
\* as well
_award_experience_total(s, amount) ==
    LET old_level == s.level
        xp == s.experience_points + amount
        new_level == _calculate_level(xp)
        s1 == [s EXCEPT !.experience_points = xp]
    IN  IF new_level > old_level
        THEN [s1 EXCEPT !.level = new_level,
                        !.current_coins = @ + new_level * 20,
                        !.total_coins = @ + new_level * 20]
        ELSE s1

\* _award_experience
_award_experience(s, amount) ==
    LET old_level == s.level
        xp == s.experience_points + amount
        new_level == _calculate_level(xp)
        s1 == [s EXCEPT !.experience_points = xp]
    IN  IF new_level > old_level
        THEN [s1 EXCEPT !.level = new_level,
                        !.current_coins = @ + new_level * 20]
        ELSE s1

\* _check_achievement_requirement
_check_achievement_requirement(s, a) ==
    CASE a.key = "quizzes_completed" -> s.total_quizzes >= a.value
      [] a.key = "perfect_quiz"      -> s.total_coins >= 200
      [] a.key = "streak_days"       -> s.streak_days >= a.value
      [] a.key = "total_coins"       -> s.total_coins >= a.value
      [] a.key = "videos_watched"    -> s.total_videos >= a.value
      [] a.key = "subject_mastery"   -> s.total_quizzes >= 20
      [] a.key = "attention_mastery" -> s.study_minutes >= a.value
      [] a.key = "early_study_days"  -> s.total_quizzes >= 10
      [] OTHER                       -> FALSE

\* variant of _check_achievements: unlocked achievements are not skipped
RECURSIVE CheckAchievementsFromNoSkip(_, _, _)
CheckAchievementsFromNoSkip(s, i, new) ==
    IF i > Len(achievements) THEN [student |-> s, new_achievements |-> new]
    ELSE LET a == achievements[i]
         IN  IF _check_achievement_requirement(s, a)
             THEN CheckAchievementsFromNoSkip(
                      [s EXCEPT !.achievements = Append(@, a.id),
                                !.current_coins = @ + a.reward_coins,
                                !.total_coins = @ + a.reward_coins],
                      i + 1, Append(new, a.id))
             ELSE CheckAchievementsFromNoSkip(s, i + 1, new)

\* _check_achievements: one pass over the catalog, from entry i on
RECURSIVE CheckAchievementsFrom(_, _, _)
CheckAchievementsFrom(s, i, new) ==
    IF i > Len(achievements) THEN [student |-> s, new_achievements |-> new]
    ELSE LET a == achievements[i]
         IN  IF Contains(s.achievements, a.id)
             THEN CheckAchievementsFrom(s, i + 1, new)
             ELSE IF _check_achievement_requirement(s, a)
             THEN CheckAchievementsFrom(
                      [s EXCEPT !.achievements = Append(@, a.id),
                                !.current_coins = @ + a.reward_coins,
                                !.total_coins = @ + a.reward_coins],
                      i + 1, Append(new, a.id))
             ELSE CheckAchievementsFrom(s, i + 1, new)

_check_achievements(s) == CheckAchievementsFrom(s, 1, <<>>)

\* award_coins, the custom multipliers loop
RECURSIVE ApplyMultipliers(_, _)
ApplyMultipliers(f, multipliers) ==
    IF multipliers = <<>> THEN f
    ELSE LET m == Head(multipliers)
         IN  IF m.name \in coin_multipliers
             THEN ApplyMultipliers([n |-> f.n * m.n, d |-> f.d * m.d],
                                   Tail(multipliers))
             ELSE ApplyMultipliers(f, Tail(multipliers))

\* award_coins: final_amount before it is truncated, as a rational
FinalAmountExact(s, amount, multipliers, lucky) ==
    LET f0 == [n |-> amount, d |-> 1]
        \* min(streak_days / 7 * 0.1, 0.5) = min(streak_days, 35) / 70
        f1 == IF s.streak_days >= 7
              THEN [n |-> f0.n * (70 + Min(s.streak_days, 35)), d |-> f0.d * 70]
              ELSE f0
        f2 == IF Contains(s.owned_perks, "double_coins")
              THEN [f1 EXCEPT !.n = @ * 2]
              ELSE f1
        f3 == IF Contains(s.owned_perks, "lucky_charm") /\ lucky # 0
              THEN [f2 EXCEPT !.n = @ + lucky * f2.d]
              ELSE f2
    IN  ApplyMultipliers(f3, multipliers)

\* award_coins: final_amount = int(final_amount)
FinalAmount(s, amount, multipliers, lucky) ==
    LET f == FinalAmountExact(s, amount, multipliers, lucky)
    IN  Trunc(f.n, f.d)

\* variant of award_coins: experience grows by the base amount
award_coins_base_xp(s, amount, multipliers, lucky, now) ==
    LET final_amount == FinalAmount(s, amount, multipliers, lucky)
        s1 == [s EXCEPT !.current_coins = @ + final_amount,
                        !.total_coins = @ + final_amount,
                        !.last_activity = now]
        s2 == _award_experience(s1, amount)
        chk == _check_achievements(s2)
        s3 == chk.student
    IN  [ student |-> s3,
          coins_awarded |-> final_amount,
          current_coins |-> s3.current_coins,
          total_coins |-> s3.total_coins,
          new_achievements |-> chk.new_achievements,
          level |-> s3.level,
          experience_points |-> s3.experience_points ]

\* award_coins
award_coins(s, amount, multipliers, lucky, now) ==
    LET final_amount == FinalAmount(s, amount, multipliers, lucky)
        s1 == [s EXCEPT !.current_coins = @ + final_amount,
                        !.total_coins = @ + final_amount,
                        !.last_activity = now]
        s2 == _award_experience(s1, final_amount)
        chk == _check_achievements(s2)
        s3 == chk.student
    IN  [ student |-> s3,
          coins_awarded |-> final_amount,
          current_coins |-> s3.current_coins,
          total_coins |-> s3.total_coins,
          new_achievements |-> chk.new_achievements,
          level |-> s3.level,
          experience_points |-> s3.experience_points ]

\* variant of spend_coins: the balance is not compared with the amount
spend_coins_unguarded(s, amount, now) ==
    [ student |-> [s EXCEPT !.current_coins = @ - amount,
                            !.last_activity = now],
      ok |-> TRUE ]

\* variant of spend_coins: the balance must exceed the amount
spend_coins_strict(s, amount, now) ==
    IF s.current_coins > amount
    THEN [ student |-> [s EXCEPT !.current_coins = @ - amount,
                                 !.last_activity = now],
           ok |-> TRUE ]
    ELSE [ student |-> s, ok |-> FALSE ]

\* spend_coins
spend_coins(s, amount, now) ==
    IF s.current_coins >= amount
    THEN [ student |-> [s EXCEPT !.current_coins = @ - amount,
                                 !.last_activity = now],
           ok |-> TRUE ]
    ELSE [ student |-> s, ok |-> FALSE ]

\* variant of purchase_perk: a perk the student owns can be bought again
purchase_perk_again(s, perk_id, now) ==
    IF perk_id \notin DOMAIN perks
    THEN [student |-> s, success |-> FALSE, error |-> "Perk not found"]
    ELSE IF s.current_coins < perks[perk_id]
    THEN [student |-> s, success |-> FALSE, error |-> "Insufficient coins"]
    ELSE LET sp == spend_coins(s, perks[perk_id], now)
         IN  IF sp.ok
             THEN [ student |-> [sp.student EXCEPT
                                    !.owned_perks = Append(@, perk_id)],
                    success |-> TRUE, error |-> "" ]
             ELSE [ student |-> sp.student, success |-> FALSE,
                    error |-> "Failed to complete purchase" ]

\* variant of purchase_perk: the cost is taken from total_coins as well
purchase_perk_total(s, perk_id, now) ==
    IF perk_id \notin DOMAIN perks
    THEN [student |-> s, success |-> FALSE, error |-> "Perk not found"]
    ELSE IF Contains(s.owned_perks, perk_id)
    THEN [student |-> s, success |-> FALSE, error |-> "Perk already owned"]
    ELSE IF s.current_coins < perks[perk_id]
    THEN [student |-> s, success |-> FALSE, error |-> "Insufficient coins"]
    ELSE LET sp == spend_coins(s, perks[perk_id], now)
         IN  IF sp.ok
             THEN [ student |-> [sp.student EXCEPT
                                    !.owned_perks = Append(@, perk_id),
                                    !.total_coins = @ - perks[perk_id]],
                    success |-> TRUE, error |-> "" ]
             ELSE [ student |-> sp.student, success |-> FALSE,
                    error |-> "Failed to complete purchase" ]

\* purchase_perk
purchase_perk(s, perk_id, now) ==
    IF perk_id \notin DOMAIN perks
    THEN [student |-> s, success |-> FALSE, error |-> "Perk not found"]
    ELSE IF Contains(s.owned_perks, perk_id)
    THEN [student |-> s, success |-> FALSE, error |-> "Perk already owned"]
    ELSE IF s.current_coins < perks[perk_id]
    THEN [student |-> s, success |-> FALSE, error |-> "Insufficient coins"]
    ELSE LET sp == spend_coins(s, perks[perk_id], now)
         IN  IF sp.ok
             THEN [ student |-> [sp.student EXCEPT
                                    !.owned_perks = Append(@, perk_id)],
                    success |-> TRUE, error |-> "" ]
             ELSE [ student |-> sp.student, success |-> FALSE,
                    error |-> "Failed to complete purchase" ]

\* _update_streak: days_diff = (now.date() - last_activity.date()).days
_update_streak(s, now) ==
    LET days_diff == now - s.last_activity
    IN  IF days_diff = 0 THEN s
        ELSE IF days_diff = 1
        THEN LET streak == s.streak_days + 1
             IN  [s EXCEPT !.streak_days = streak,
                           !.longest_streak =
                               IF streak > @ THEN streak ELSE @]
        ELSE [s EXCEPT !.streak_days = 1]

\* _check_daily_challenges: the bonus it awards
DailyBonus(activity_type, score) ==
    IF activity_type = "quiz" /\ score >= 800 THEN 10
    ELSE IF activity_type = "video" THEN 5
    ELSE 0

\* update_activity; `now` is the clock at entry, `now2` the clock when
\* _update_streak (and everything after it) reads it again
update_activity(s, activity_type, minutes, score, lucky, now, now2) ==
    LET s1 == [s EXCEPT !.last_activity = now]
        s2 == CASE activity_type = "quiz" ->
                     [s1 EXCEPT !.total_quizzes = @ + 1]
                [] activity_type = "video" ->
                     [s1 EXCEPT !.total_videos = @ + 1]
                [] activity_type = "study" ->
                     [s1 EXCEPT !.study_minutes = @ + minutes]
                [] OTHER -> s1
        s3 == _update_streak(s2, now2)
        bonus_coins == DailyBonus(activity_type, score)
    IN  IF bonus_coins > 0
        THEN LET aw == award_coins(s3, bonus_coins, <<>>, lucky, now2)
             IN  [student |-> aw.student, coins_awarded |-> aw.coins_awarded,
                  new_achievements |-> aw.new_achievements]
        ELSE [student |-> s3, coins_awarded |-> 0, new_achievements |-> <<>>]

(***************************************************************************)
(* QuizGenerator                                                            *)
(*                                                                          *)
(* A dict is a function on its keys, the empty dict the function on {}.     *)
(* The progress key f"{subject}_{grade}" is the pair <<subject, grade>>.    *)
(* A percentage (correct / total) * 100 is the exact rational in lowest     *)
(* terms; for quizzes of at most 10 questions its comparisons with the      *)
(* integer thresholds agree with those of the IEEE double.                  *)
(***************************************************************************)
EmptyDict == [key \in {} |-> 0]

Q(id, difficulty, topic, correct_answer) ==
    [id |-> id, difficulty |-> difficulty, topic |-> topic,
     correct_answer |-> correct_answer, options |-> 4]

\* _load_question_banks: subject -> grade -> list of questions
question_banks ==
    ("Math" :>
        ("5th" :> << Q("math_5_1", "easy", "Addition", 0),
                     Q("math_5_2", "easy", "Subtraction", 1),
                     Q("math_5_3", "medium", "Multiplication", 0),
                     Q("math_5_4", "medium", "Fractions", 0),
                     Q("math_5_5", "easy", "Geometry", 1) >> @@
         "6th" :> << Q("math_6_1", "medium", "Division", 0),
                     Q("math_6_2", "medium", "Decimals and Fractions", 0),
                     Q("math_6_3", "medium", "Area and Perimeter", 0) >> @@
         "7th" :> << Q("math_7_1", "hard", "Algebra", 0),
                     Q("math_7_2", "medium", "Percentages", 0) >> @@
         "8th" :> << Q("math_8_1", "medium", "Square Roots", 0),
                     Q("math_8_2", "hard", "Triangles", 0) >>)) @@
    ("Science" :>
        ("5th" :> << Q("science_5_1", "easy", "Plant Life", 2),
                     Q("science_5_2", "medium", "Solar System", 1),
                     Q("science_5_3", "easy", "Human Body", 1) >> @@
         "6th" :> << Q("science_6_1", "medium", "Water Cycle", 1),
                     Q("science_6_2", "medium", "Simple Machines", 1) >> @@
         "7th" :> << Q("science_7_1", "medium", "Cell Biology", 1),
                     Q("science_7_2", "hard", "Sound", 1) >> @@
         "8th" :> << Q("science_8_1", "easy", "Chemistry", 0),
                     Q("science_8_2", "medium", "Forces and Motion", 1) >>)) @@
    ("Social Studies" :>
        ("5th" :> << Q("social_5_1", "medium", "Indian History", 1) >> @@
         "6th" :> << Q("social_6_1", "medium", "Geography", 1) >> @@
         "7th" :> << Q("social_7_1", "easy", "Freedom Struggle", 1) >> @@
         "8th" :> << Q("social_8_1", "easy", "Indian States", 2) >>)) @@
    ("English" :>
        ("5th" :> << Q("english_5_1", "easy", "Grammar", 1) >> @@
         "6th" :> << Q("english_6_1", "medium", "Parts of Speech", 1) >> @@
         "7th" :> << Q("english_7_1", "medium", "Adverbs", 3) >> @@
         "8th" :> << Q("english_8_1", "easy", "Phonics", 1) >>))

\* self.score_thresholds
score_thresholds ==
    [ easy   |-> [promote |-> 80, demote |-> 40],
      medium |-> [promote |-> 85, demote |-> 50],
      hard   |-> [promote |-> 90, demote |-> 60] ]

Max(a, b) == IF a >= b THEN a ELSE b

RECURSIVE GCD(_, _)
GCD(a, b) == IF b = 0 THEN a ELSE GCD(b, a % b)

\* (correct_answers / total_questions) * 100, total_questions > 0
Percent(correct_answers, total_questions) ==
    LET g == GCD(100 * correct_answers, total_questions)
    IN  [n |-> (100 * correct_answers) \div g, d |-> total_questions \div g]

\* round(percentage, 1), in tenths of a percent; no percentage of a quiz of
\* fewer than 16 questions lies halfway between two tenths
Round1(p) == (20 * p.n + p.d) \div (2 * p.d)

\* seq[:n]
Slice(seq, n) ==
    IF n >= 0 THEN SubSeq(seq, 1, Min(n, Len(seq)))
    ELSE SubSeq(seq, 1, Max(Len(seq) + n, 0))

\* random.sample(population, k), 0 <= k <= len(population): every list of k
\* elements at distinct positions
Samples(population, k) ==
    { [i \in 1..k |-> population[f[i]]] :
        f \in { g \in [1..k -> 1..Len(population)] :
                  \A a, b \in 1..k : a # b => g[a] # g[b] } }

\* the QuizSession generate_quiz builds (session_id and timestamp left out)
QuizSession(grade, board, subject, questions, difficulty) ==
    [ grade |-> grade, board |-> board, subject |-> subject,
      questions |-> questions, user_answers |-> <<>>, score |-> 0,
      total_questions |-> Len(questions),
      difficulty_level |-> difficulty,
      topics_covered |-> {questions[i].topic : i \in 1..Len(questions)} ]

\* variant of _get_adaptive_difficulty: a student without a record is given
\* the default recent score of 50 and the bands are cut at 80 and 50
_get_adaptive_difficulty_banded(progress_all, subject, grade) ==
    LET progress_key == <<subject, grade>>
        progress == IF progress_key \in DOMAIN progress_all
                    THEN progress_all[progress_key]
                    ELSE [current_difficulty |-> "easy"]
        recent_score == IF "recent_average" \in DOMAIN progress
                        THEN progress.recent_average ELSE 50
    IN  IF recent_score >= 80
        THEN (IF progress.current_difficulty = "easy" THEN "medium" ELSE "hard")
        ELSE IF recent_score >= 50 THEN "medium"
        ELSE "easy"

\* _get_adaptive_difficulty
_get_adaptive_difficulty(progress_all, subject, grade) ==
    LET progress_key == <<subject, grade>>
    IN  IF progress_key \notin DOMAIN progress_all THEN "easy"
        ELSE LET progress == progress_all[progress_key]
                 recent_score ==
                     IF "recent_average" \in DOMAIN progress
                     THEN progress.recent_average ELSE 50
                 current_difficulty ==
                     IF "current_difficulty" \in DOMAIN progress
                     THEN progress.current_difficulty ELSE "easy"
             IN  IF recent_score >= 80
                 THEN (IF current_difficulty = "easy" THEN "medium" ELSE "hard")
                 ELSE IF recent_score >= 60 THEN "medium"
                 ELSE "easy"

\* _get_questions_pool; topics = <<>> stands for None (and for the empty list)
_get_questions_pool(grade, subject, difficulty, topics) ==
    IF \/ subject \notin DOMAIN question_banks
       \/ grade \notin DOMAIN question_banks[subject]
    THEN <<>>
    ELSE LET questions == question_banks[subject][grade]
             by_difficulty ==
                 IF difficulty # "auto"
                 THEN SelectSeq(questions, LAMBDA q : q.difficulty = difficulty)
                 ELSE questions
         IN  IF topics # <<>>
             THEN SelectSeq(by_difficulty, LAMBDA q : Contains(topics, q.topic))
             ELSE by_difficulty

\* the keys of topic_groups, in insertion order
RECURSIVE TopicOrder(_, _)
TopicOrder(questions_pool, seen) ==
    IF questions_pool = <<>> THEN seen
    ELSE LET topic == Head(questions_pool).topic
         IN  TopicOrder(Tail(questions_pool),
                        IF Contains(seen, topic) THEN seen
                        ELSE Append(seen, topic))

\* _select_questions, the loop over topic_groups: every list `selected` it
\* can build from the topics that remain
RECURSIVE SampleTopics(_, _, _)
SampleTopics(questions_pool, topics, questions_per_topic) ==
    IF topics = <<>> THEN {<<>>}
    ELSE LET topic_questions ==
                 SelectSeq(questions_pool, LAMBDA q : q.topic = Head(topics))
         IN  { topic_selection \o rest :
                 topic_selection \in
                     Samples(topic_questions,
                             Min(questions_per_topic, Len(topic_questions))),
                 rest \in SampleTopics(questions_pool, Tail(topics),
                                       questions_per_topic) }

\* variant of _select_questions: a plain random.sample of the pool
_select_questions_random(questions_pool, num_questions, difficulty) ==
    IF Len(questions_pool) <= num_questions THEN {questions_pool}
    ELSE Samples(questions_pool, Max(num_questions, 0))

\* variant of _select_questions: `selected` is returned whole
_select_questions_whole(questions_pool, num_questions, difficulty) ==
    IF Len(questions_pool) <= num_questions THEN {questions_pool}
    ELSE LET topics == TopicOrder(questions_pool, <<>>)
             questions_per_topic == Max(1, num_questions \div Len(topics))
             Fill(selected) ==
                 LET remaining == num_questions - Len(selected)
                     remaining_pool ==
                         SelectSeq(questions_pool,
                                   LAMBDA q : ~Contains(selected, q))
                 IN  IF remaining > 0 /\ remaining_pool # <<>>
                     THEN { selected \o more :
                              more \in Samples(remaining_pool,
                                               Min(remaining,
                                                   Len(remaining_pool))) }
                     ELSE {selected}
         IN  UNION { Fill(selected) :
                     selected \in SampleTopics(questions_pool, topics,
                                               questions_per_topic) }

\* _select_questions: the set of lists it can return (questions_pool is not
\* empty when it is longer than num_questions asks for)
_select_questions(questions_pool, num_questions, difficulty) ==
    IF Len(questions_pool) <= num_questions THEN {questions_pool}
    ELSE LET topics == TopicOrder(questions_pool, <<>>)
             questions_per_topic == Max(1, num_questions \div Len(topics))
             Fill(selected) ==
                 LET remaining == num_questions - Len(selected)
                     remaining_pool ==
                         SelectSeq(questions_pool,
                                   LAMBDA q : ~Contains(selected, q))
                 IN  IF remaining > 0 /\ remaining_pool # <<>>
                     THEN { selected \o more :
                              more \in Samples(remaining_pool,
                                               Min(remaining,
                                                   Len(remaining_pool))) }
                     ELSE {selected}
         IN  { Slice(filled, num_questions) :
                 filled \in UNION { Fill(selected) :
                     selected \in SampleTopics(questions_pool, topics,
                                               questions_per_topic) } }

\* _get_fallback_questions: the questions of every grade of the subject
_get_fallback_questions(subject, grade) ==
    IF subject \in DOMAIN question_banks
    THEN LET bank == question_banks[subject]
         IN  bank["5th"] \o bank["6th"] \o bank["7th"] \o bank["8th"]
    ELSE <<>>

\* _create_fallback_quiz
_create_fallback_quiz(grade, board, subject) ==
    [ QuizSession(grade, board, subject,
                  << Q("fallback_1", "easy", "General", 0) >>, "easy")
        EXCEPT !.topics_covered = {"General"} ]

\* generate_quiz, "Get available questions": the pool handed to
\* _select_questions, the fallback pool when no question matches
CandidatePool(grade, subject, difficulty, topics) ==
    LET pool == _get_questions_pool(grade, subject, difficulty, topics)
    IN  IF pool = <<>> THEN _get_fallback_questions(subject, grade) ELSE pool

\* generate_quiz: the set of sessions it can return; num_questions is an
\* integer (create_quiz always passes one).  The body raises, and the
\* fallback quiz is returned, when _select_questions divides by the number
\* of topics of an empty pool.
generate_quiz(progress_all, grade, board, subject, difficulty, num_questions, topics) ==
    LET resolved == IF difficulty = "auto"
                    THEN _get_adaptive_difficulty(progress_all, subject, grade)
                    ELSE difficulty
        questions_pool == CandidatePool(grade, subject, resolved, topics)
    IN  IF questions_pool = <<>> /\ num_questions < 0
        THEN {_create_fallback_quiz(grade, board, subject)}
        ELSE { QuizSession(grade, board, subject, selected_questions, resolved) :
                 selected_questions \in
                     _select_questions(questions_pool, num_questions, resolved) }

\* _update_student_progress, the loop over the answered questions
RECURSIVE UpdateTopicPerformance(_, _, _)
UpdateTopicPerformance(topic_performance, quiz_session, i) ==
    IF i > Min(Len(quiz_session.questions), Len(quiz_session.user_answers))
    THEN topic_performance
    ELSE LET question == quiz_session.questions[i]
             is_correct ==
                 quiz_session.user_answers[i] = question.correct_answer
             old == IF question.topic \in DOMAIN topic_performance
                    THEN topic_performance[question.topic]
                    ELSE [correct |-> 0, total |-> 0]
             new == [ correct |-> old.correct + (IF is_correct THEN 1 ELSE 0),
                      total |-> old.total + 1 ]
         IN  UpdateTopicPerformance(
                 (question.topic :> new) @@ topic_performance,
                 quiz_session, i + 1)

\* variant of _update_student_progress: the window is scores[:10]
_update_student_progress_head(progress_all, quiz_session, percentage, now) ==
    LET progress_key == <<quiz_session.subject, quiz_session.grade>>
        progress ==
            IF progress_key \in DOMAIN progress_all
            THEN progress_all[progress_key]
            ELSE [ total_quizzes |-> 0, scores |-> <<>>,
                   recent_scores |-> <<>>, topic_performance |-> EmptyDict,
                   current_difficulty |-> "easy", last_quiz_date |-> -1 ]
        scores == Append(progress.scores, percentage)
    IN  (progress_key :>
            [ total_quizzes |-> progress.total_quizzes + 1,
              scores |-> scores,
              recent_scores |->
                  SubSeq(scores, 1, Min(10, Len(scores))),
              topic_performance |->
                  UpdateTopicPerformance(progress.topic_performance,
                                         quiz_session, 1),
              current_difficulty |-> quiz_session.difficulty_level,
              last_quiz_date |-> now ])
        @@ progress_all

\* _update_student_progress: the student_progress dict it leaves
_update_student_progress(progress_all, quiz_session, percentage, now) ==
    LET progress_key == <<quiz_session.subject, quiz_session.grade>>
        progress ==
            IF progress_key \in DOMAIN progress_all
            THEN progress_all[progress_key]
            ELSE [ total_quizzes |-> 0, scores |-> <<>>,
                   recent_scores |-> <<>>, topic_performance |-> EmptyDict,
                   current_difficulty |-> "easy", last_quiz_date |-> -1 ]
        scores == Append(progress.scores, percentage)
    IN  (progress_key :>
            [ total_quizzes |-> progress.total_quizzes + 1,
              scores |-> scores,
              recent_scores |->
                  SubSeq(scores, Max(1, Len(scores) - 9), Len(scores)),
              topic_performance |->
                  UpdateTopicPerformance(progress.topic_performance,
                                         quiz_session, 1),
              current_difficulty |-> quiz_session.difficulty_level,
              last_quiz_date |-> now ])
        @@ progress_all

\* variant of _calculate_coins: the 80 percent tier starts above 80
_calculate_coins_strict(percentage, difficulty) ==
    LET base == CASE difficulty = "easy"   -> 10
                  [] difficulty = "medium" -> 20
                  [] difficulty = "hard"   -> 30
                  [] OTHER                 -> 10
    IN  IF percentage.n >= 90 * percentage.d THEN base * 3
        ELSE IF percentage.n > 80 * percentage.d THEN base * 2
        ELSE IF percentage.n >= 60 * percentage.d THEN Trunc(base * 3, 2)
        ELSE IF percentage.n >= 40 * percentage.d THEN base
        ELSE Max(5, base \div 2)

\* variant of _calculate_coins: the consolation is max(25, base // 2)
_calculate_coins_consolation(percentage, difficulty) ==
    LET base == CASE difficulty = "easy"   -> 10
                  [] difficulty = "medium" -> 20
                  [] difficulty = "hard"   -> 30
                  [] OTHER                 -> 10
    IN  IF percentage.n >= 90 * percentage.d THEN base * 3
        ELSE IF percentage.n >= 80 * percentage.d THEN base * 2
        ELSE IF percentage.n >= 60 * percentage.d THEN Trunc(base * 3, 2)
        ELSE IF percentage.n >= 40 * percentage.d THEN base
        ELSE Max(25, base \div 2)

\* _calculate_coins
_calculate_coins(percentage, difficulty) ==
    LET base == CASE difficulty = "easy"   -> 10
                  [] difficulty = "medium" -> 20
                  [] difficulty = "hard"   -> 30
                  [] OTHER                 -> 10
    IN  IF percentage.n >= 90 * percentage.d THEN base * 3
        ELSE IF percentage.n >= 80 * percentage.d THEN base * 2
        ELSE IF percentage.n >= 60 * percentage.d THEN Trunc(base * 3, 2)
        ELSE IF percentage.n >= 40 * percentage.d THEN base
        ELSE Max(5, base \div 2)

\* variant of _recommend_next_difficulty: every difficulty is judged by the
\* default thresholds
_recommend_next_difficulty_default(percentage, current_difficulty) ==
    LET thresholds == [promote |-> 80, demote |-> 50]
    IN  IF percentage.n >= thresholds.promote * percentage.d
        THEN (IF current_difficulty = "easy" THEN "medium" ELSE "hard")
        ELSE IF percentage.n < thresholds.demote * percentage.d
        THEN (IF current_difficulty = "hard" THEN "medium" ELSE "easy")
        ELSE current_difficulty

\* _recommend_next_difficulty
_recommend_next_difficulty(percentage, current_difficulty) ==
    LET thresholds == IF current_difficulty \in DOMAIN score_thresholds
                      THEN score_thresholds[current_difficulty]
                      ELSE [promote |-> 80, demote |-> 50]
    IN  IF percentage.n >= thresholds.promote * percentage.d
        THEN (IF current_difficulty = "easy" THEN "medium" ELSE "hard")
        ELSE IF percentage.n < thresholds.demote * percentage.d
        THEN (IF current_difficulty = "hard" THEN "medium" ELSE "easy")
        ELSE current_difficulty

\* variant of UserAnswer: a question without an answer counts as answer 0
UserAnswerDefaultZero(user_answers, i) ==
    IF i <= Len(user_answers) THEN user_answers[i] ELSE 0

\* score_quiz: user_answers[i] if i < len(user_answers) else -1, for the
\* question at position i (counted from 1 here)
UserAnswer(user_answers, i) ==
    IF i <= Len(user_answers) THEN user_answers[i] ELSE -1

\* _analyze_topic_performance over the question_results score_quiz builds:
\* one result per question of the session
_analyze_topic_performance(quiz_session, user_answers) ==
    LET questions == quiz_session.questions
        Of(topic) == {i \in 1..Len(questions) : questions[i].topic = topic}
        Right(topic) ==
            {i \in Of(topic) :
               UserAnswer(user_answers, i) = questions[i].correct_answer}
    IN  [ topic \in {questions[i].topic : i \in 1..Len(questions)} |->
            [ percentage |->
                  Round1(Percent(Cardinality(Right(topic)),
                                 Cardinality(Of(topic)))),
              correct |-> Cardinality(Right(topic)),
              total |-> Cardinality(Of(topic)) ] ]

\* score_quiz: the result dictionary (percentage in tenths of a percent), the
\* student_progress dict it leaves and the exception its handler caught and
\* logged ("" when none).  The division by total_questions = 0 raises
\* before the progress is touched and yields the consolation result.
score_quiz(progress_all, quiz_session, user_answers, now) ==
    LET correct_answers ==
            Cardinality({ i \in 1..Len(quiz_session.questions) :
                            UserAnswer(user_answers, i) =
                                quiz_session.questions[i].correct_answer })
        scored == [quiz_session EXCEPT !.user_answers = user_answers,
                                       !.score = correct_answers]
    IN  IF quiz_session.total_questions = 0
        THEN [ score |-> 0, total |-> quiz_session.total_questions,
               percentage |-> 0, coins_earned |-> 10,
               feedback |-> "Error occurred while scoring quiz.",
               exception |-> "ZeroDivisionError",
               student_progress |-> progress_all ]
        ELSE LET percentage ==
                     Percent(correct_answers, quiz_session.total_questions)
             IN  [ score |-> correct_answers,
                   total |-> quiz_session.total_questions,
                   percentage |-> Round1(percentage),
                   difficulty |-> quiz_session.difficulty_level,
                   coins_earned |->
                       _calculate_coins(percentage,
                                        quiz_session.difficulty_level),
                   next_difficulty |->
                       _recommend_next_difficulty(
                           percentage, quiz_session.difficulty_level),
                   exception |-> "",
                   topics_performance |->
                       _analyze_topic_performance(quiz_session, user_answers),
                   student_progress |->
                       _update_student_progress(progress_all, scored,
                                                percentage, now) ]

(***************************************************************************)
(* AgenticTutorBackend: the learning session and the quiz API               *)
(*                                                                          *)
(* None is the empty string for grade, board and subject, and the empty     *)
(* list for active_quiz, which otherwise holds the one QuizSession.         *)
(***************************************************************************)
NoSession ==
    [grade |-> "", board |-> "", subject |-> "", active_quiz |-> <<>>]

\* setup_learning_session: the session state it leaves (the syllabus
\* download and indexing that follow do not touch it)
setup_learning_session(session, grade, board, subject) ==
    [session EXCEPT !.grade = grade, !.board = board, !.subject = subject]

\* create_quiz: the set of outcomes, one per quiz generate_quiz can return
create_quiz(session, progress_all, difficulty, num_questions) ==
    IF session.grade = "" \/ session.board = "" \/ session.subject = ""
    THEN { [ current_session |-> session,
             error |-> "Please set up your learning session first!" ] }
    ELSE { [ current_session |-> [session EXCEPT !.active_quiz = <<quiz_session>>],
             error |-> "" ] :
             quiz_session \in
                 generate_quiz(progress_all, session.grade, session.board,
                               session.subject, difficulty, num_questions,
                               <<>>) }

\* variant of clear_active_quiz: the scored quiz stays the active quiz
keep_active_quiz(session) == session

\* submit_quiz, "Clear active quiz"
clear_active_quiz(session) == [session EXCEPT !.active_quiz = <<>>]

\* submit_quiz, from "Update activity tracking" on: gamification_result is
\* what award_coins returned
submit_quiz_awarded(session, quiz_result, gamification_result, lucky2, now) ==
    [ current_session |-> clear_active_quiz(session),
      student |->
          update_activity(gamification_result.student, "quiz", 0,
                          quiz_result.percentage, lucky2, now, now).student,
      student_progress |-> quiz_result.student_progress,
      error |-> "",
      quiz_result |-> quiz_result,
      gamification |-> gamification_result,
      new_achievements |-> gamification_result.new_achievements,
      current_coins |-> gamification_result.current_coins,
      level |-> gamification_result.level ]

\* submit_quiz, from "Update gamification" on: quiz_result is what
\* score_quiz returned
submit_quiz_scored(session, s, quiz_result, lucky, lucky2, now) ==
    submit_quiz_awarded(
        session, quiz_result,
        award_coins(s, quiz_result.coins_earned,
                    IF quiz_result.percentage = 1000
                    THEN <<Mult("perfect_score", 2, 1)>>
                    ELSE <<>>,
                    lucky, now),
        lucky2, now)

\* submit_quiz; lucky and lucky2 are what the random source gives to
\* award_coins and to the award nested in update_activity
submit_quiz(session, s, progress_all, answers, lucky, lucky2, now) ==
    IF session.active_quiz = <<>>
    THEN [ current_session |-> session, student |-> s,
           student_progress |-> progress_all,
           error |-> "No active quiz found!" ]
    ELSE submit_quiz_scored(
             session, s,
             score_quiz(progress_all, session.active_quiz[1], answers, now),
             lucky, lucky2, now)

(***************************************************************************)
(* The REST API (src/backend/api.py): one global GameState, handlers that   *)
(* the server runs on worker threads.  No handler takes a lock, so a step   *)
(* of one thread is one read or one write of an attribute of game_state.    *)
(***************************************************************************)
Threads == {1, 2}

\* GameState.__init__
NewGameState ==
    [coins |-> 100, total_coins_earned |-> 100, unlocked_perks |-> <<>>]

\* PERKS_SHOP: name and cost
PERKS_SHOP ==
    << [name |-> "Golden Star Badge", cost |-> 50],
       [name |-> "Super Learner Avatar", cost |-> 100],
       [name |-> "Speed Boost", cost |-> 75],
       [name |-> "Hint Helper", cost |-> 30],
       [name |-> "Rainbow Theme", cost |-> 80],
       [name |-> "Music Mode", cost |-> 60] >>

\* a worker thread's request: the handler, its argument, its position, the
\* value it has read and the result of spend_coins
NoRequest == [op |-> "", amount |-> 0, pc |-> "idle", tmp |-> 0, ok |-> FALSE]

(***************************************************************************)
(* The record of the last event: an operation and what it returned, or the  *)
(* passing of midnight.                                                     *)
(***************************************************************************)
(***************************************************************************)
(* GamificationEngine.get_leaderboard                                       *)
(***************************************************************************)
\* the sort key of a profile: (level, experience_points) for "level",
\* total_coins for "total_coins" and for any metric the code does not know
SortKey(profile, metric) ==
    CASE metric = "level" -> <<profile.level, profile.experience_points>>
      [] metric = "streak_days" -> <<profile.streak_days, 0>>
      [] metric = "quizzes" -> <<profile.total_quizzes, 0>>
      [] OTHER -> <<profile.total_coins, 0>>

\* getattr(student, metric, student.total_coins)
MetricScore(profile, metric) ==
    IF metric \in DOMAIN profile THEN profile[metric]
    ELSE profile.total_coins

\* tuple comparison k1 < k2
KeyLess(k1, k2) == k1[1] < k2[1] \/ (k1[1] = k2[1] /\ k1[2] < k2[2])

\* variant of InsertDescending: the profile goes before its equals
InsertDescendingFirst(sorted, profile, metric) ==
    LET before == {i \in 1..Len(sorted) :
                     KeyLess(SortKey(profile, metric),
                             SortKey(sorted[i], metric))}
    IN  SubSeq(sorted, 1, Cardinality(before)) \o <<profile>>
          \o SubSeq(sorted, Cardinality(before) + 1, Len(sorted))

\* one step of list.sort(key=.., reverse=True): the profile goes behind
\* every profile whose key is not smaller (the sort is stable)
InsertDescending(sorted, profile, metric) ==
    LET before == {i \in 1..Len(sorted) :
                     ~KeyLess(SortKey(sorted[i], metric),
                              SortKey(profile, metric))}
    IN  SubSeq(sorted, 1, Cardinality(before)) \o <<profile>>
          \o SubSeq(sorted, Cardinality(before) + 1, Len(sorted))

\* students.sort(key=.., reverse=True)
RECURSIVE SortDescending(_, _, _)
SortDescending(students, sorted, metric) ==
    IF students = <<>> THEN sorted
    ELSE SortDescending(Tail(students),
                        InsertDescending(sorted, Head(students), metric),
                        metric)

\* get_leaderboard: the entries for the values of student_profiles, in the
\* order of the dict
get_leaderboard(students, metric, limit) ==
    LET ranked == Slice(SortDescending(students, <<>>, metric), limit)
    IN  [ i \in 1..Len(ranked) |->
            [ rank |-> i, student_id |-> ranked[i].student_id,
              score |-> MetricScore(ranked[i], metric),
              metric |-> metric ] ]

(***************************************************************************)
(* Persistence: the two JSON documents of cache_dir.  A document is         *)
(* "missing", "saved" (it holds the data that is in memory), "stale" (it    *)
(* holds older data) or "partial" (open(.., 'w') truncated it and json.dump *)
(* did not finish).                                                         *)
(***************************************************************************)
\* the disk during one call: writable, read-only (open raises) or full
\* (json.dump raises after the file was truncated)
Disks == {"ok", "readonly", "full"}

\* open(file, 'w') and json.dump(data) inside try/except: the document left
\* behind, `before` being the data in memory when the operation began; the
\* exception is logged and nothing is raised or returned
Dump(document, before, data, disk) ==
    IF disk = "ok" THEN "saved"
    ELSE IF disk = "full" THEN "partial"
    ELSE IF document = "saved" /\ data # before THEN "stale"
    ELSE document

\* _save_student_profiles
_save_student_profiles(cache, before, s, disk) ==
    [cache EXCEPT !.gamification = Dump(@, before, s, disk)]

\* _save_student_progress
_save_student_progress(cache, before, progress_all, disk) ==
    [cache EXCEPT !.quiz_progress = Dump(@, before, progress_all, disk)]

\* cache_dir after construction: _get_or_create_student has saved the new
\* profile, no quiz progress was saved yet
NewFiles == [gamification |-> "saved", quiz_progress |-> "missing"]

NoCall ==
    [ op |-> "init",            \* name of the operation
      arg |-> "",               \* perk id or activity type
      amount |-> 0,             \* amount argument (award, spend) or score
      multipliers |-> <<>>,     \* multipliers argument of award_coins
      lucky |-> 0,              \* what the random source gave to award_coins
      ok |-> TRUE,              \* the result reports success
      error |-> "",             \* the "error" entry of the result, if any
      coins_awarded |-> 0,      \* result of the award_coins run in the call
      new_achievements |-> <<>>,\*   (award_coins itself or the one nested
      current_coins |-> 0,      \*   in update_activity); the defaults
      level |-> 0,              \*   when none ran
      args |-> <<>>,            \* arguments and result of a call of the
      result |-> <<>> ]         \*   quiz generator

\* the Thread objects start_monitoring creates, in creation order
LoopThreads == 1..MaxLoops

\* AttentionMonitor.__init__; attention_history is kept as its length
NewAttentionMonitor ==
    [ is_monitoring |-> FALSE,
      camera |-> "None",          \* "None", "opened", "not_opened"
      monitoring_thread |-> 0,    \* 0 is None
      attention_history |-> 0 ]

Init ==
    /\ today = 0
    /\ student = NewStudent(0)
    /\ call = NoCall
    /\ current_session = NoSession
    /\ student_progress = EmptyDict
    /\ game_state = NewGameState
    /\ requests = [t \in Threads |-> NoRequest]
    /\ files = NewFiles
    /\ attention_monitor = NewAttentionMonitor
    /\ loops = [t \in LoopThreads |-> "unborn"]
    /\ caller = "idle"

UnchangedQuiz == UNCHANGED <<current_session, student_progress>>

UnchangedMonitor == UNCHANGED <<attention_monitor, loops, caller>>

UnchangedApi == UNCHANGED <<game_state, requests>> /\ UnchangedMonitor

UnchangedFiles == UNCHANGED files

\* the random source is read only when the lucky charm is owned
LuckyDraws(s) ==
    IF Contains(s.owned_perks, "lucky_charm") THEN LuckyOutcomes ELSE {0}

(***************************************************************************)
(* Actions of the ledger                                                    *)
(***************************************************************************)
AdvanceDay ==
    /\ today < MaxDay
    /\ today' = today + 1
    /\ call' = [NoCall EXCEPT !.op = "midnight"]
    /\ UNCHANGED <<student, current_session, student_progress>>
    /\ UnchangedApi
    /\ UnchangedFiles

AwardCoinsFrom(amounts) ==
    /\ student.total_coins <= MaxCoins
    /\ \E amount \in amounts, multipliers \in MultiplierInputs,
          lucky \in LuckyDraws(student) :
          LET r == award_coins(student, amount, multipliers, lucky, today)
          IN  /\ student' = r.student
              /\ call' = [NoCall EXCEPT
                            !.op = "award_coins", !.amount = amount,
                            !.multipliers = multipliers, !.lucky = lucky,
                            !.coins_awarded = r.coins_awarded,
                            !.new_achievements = r.new_achievements,
                            !.current_coins = r.current_coins,
                            !.level = r.level]
    /\ UNCHANGED today
    /\ UnchangedQuiz
    /\ UnchangedApi
    /\ UnchangedFiles

AwardCoins == AwardCoinsFrom(AwardAmounts)

SpendCoins ==
    /\ \E amount \in SpendAmounts :
          LET r == spend_coins(student, amount, today)
          IN  /\ student' = r.student
              /\ call' = [NoCall EXCEPT !.op = "spend_coins",
                                        !.amount = amount, !.ok = r.ok]
    /\ UNCHANGED today
    /\ UnchangedQuiz
    /\ UnchangedApi
    /\ UnchangedFiles

PurchasePerk ==
    /\ \E perk_id \in PerkInputs :
          LET r == purchase_perk(student, perk_id, today)
          IN  /\ student' = r.student
              /\ call' = [NoCall EXCEPT !.op = "purchase_perk",
                                        !.arg = perk_id, !.ok = r.success]
    /\ UNCHANGED today
    /\ UnchangedQuiz
    /\ UnchangedApi
    /\ UnchangedFiles

\* update_activity; midnights = {0}: the call completes within the day,
\* midnights = {0, 1}: midnight may pass between its two readings of the clock
UpdateActivityWith(types, midnights) ==
    /\ \E activity_type \in types, midnight \in midnights,
          lucky \in LuckyDraws(student) :
       \E minutes \in (IF activity_type = "study" THEN StudyMinutes ELSE {0}),
          score \in (IF activity_type = "quiz" THEN ActivityScores ELSE {0}) :
          /\ activity_type = "quiz" => student.total_quizzes < MaxQuizzes
          /\ activity_type = "video" => student.total_videos < MaxVideos
          /\ activity_type = "study" => student.study_minutes < MaxStudy
          /\ today + midnight <= MaxDay
          /\ LET r == update_activity(student, activity_type, minutes, score,
                                      lucky, today, today + midnight)
             IN  /\ student' = r.student
                 /\ call' = [NoCall EXCEPT
                               !.op = "update_activity",
                               !.arg = activity_type, !.amount = score,
                               !.lucky = lucky,
                               !.coins_awarded = r.coins_awarded,
                               !.new_achievements = r.new_achievements]
          /\ today' = today + midnight
    /\ UnchangedQuiz
    /\ UnchangedApi
    /\ UnchangedFiles

UpdateActivity == UpdateActivityWith(ActivityTypes, {0})

(***************************************************************************)
(* Spec: one student's ledger under award_coins, spend_coins, purchase_perk *)
(* and update_activity, every call completing within the day.               *)
(***************************************************************************)
Next ==
    \/ AwardCoins
    \/ SpendCoins
    \/ PurchasePerk
    \/ UpdateActivity

Spec == Init /\ [][Next]_vars

(***************************************************************************)
(* SpecStreak: the ledger over several days; midnight may pass while        *)
(* update_activity runs.                                                    *)
(***************************************************************************)
UpdateActivityAroundMidnight == UpdateActivityWith(ClockActivityTypes, {0, 1})

NextStreak ==
    \/ AdvanceDay
    \/ AwardCoins
    \/ UpdateActivityAroundMidnight

SpecStreak == Init /\ [][NextStreak]_vars

(***************************************************************************)
(* SpecLevels: awards large enough to cross the whole level table.          *)
(***************************************************************************)
AwardCoinsLevels == AwardCoinsFrom(LevelAmounts)

NextLevels ==
    \/ AwardCoinsLevels
    \/ PurchasePerk

SpecLevels == Init /\ [][NextLevels]_vars

(***************************************************************************)
(* SpecQuiz: a learning session is set up, quizzes are created and          *)
(* submitted; every call completes within the day.                          *)
(***************************************************************************)
SetupLearningSession ==
    /\ \E grade \in SessionGrades, board \in SessionBoards,
          subject \in SessionSubjects :
          current_session' =
              setup_learning_session(current_session, grade, board, subject)
    /\ call' = [NoCall EXCEPT !.op = "setup_learning_session"]
    /\ UNCHANGED <<student, today, student_progress>>
    /\ UnchangedApi
    /\ UnchangedFiles

CreateQuiz ==
    /\ student.total_quizzes < MaxSessions
    /\ \E difficulty \in QuizDifficulties, num_questions \in QuizLengths :
       \E r \in create_quiz(current_session, student_progress, difficulty,
                            num_questions) :
          /\ current_session' = r.current_session
          /\ call' = [NoCall EXCEPT !.op = "create_quiz",
                                    !.arg = difficulty,
                                    !.amount = num_questions,
                                    !.ok = (r.error = ""),
                                    !.error = r.error]
    /\ UNCHANGED <<student, today, student_progress>>
    /\ UnchangedApi
    /\ UnchangedFiles

SubmitQuiz ==
    /\ \E answers \in AnswerInputs, lucky \in LuckyDraws(student),
          lucky2 \in LuckyDraws(student) :
       \E r \in {submit_quiz(current_session, student, student_progress,
                             answers, lucky, lucky2, today)} :
          /\ current_session' = r.current_session
          /\ student' = r.student
          /\ student_progress' = r.student_progress
          /\ call' =
                IF r.error # ""
                THEN [NoCall EXCEPT !.op = "submit_quiz", !.ok = FALSE,
                                    !.error = r.error]
                ELSE [NoCall EXCEPT
                        !.op = "submit_quiz",
                        !.amount = r.quiz_result.percentage,
                        !.lucky = lucky,
                        !.coins_awarded = r.gamification.coins_awarded,
                        !.new_achievements = r.new_achievements,
                        !.current_coins = r.current_coins,
                        !.level = r.level]
    /\ UNCHANGED today
    /\ UnchangedApi
    /\ UnchangedFiles

NextQuiz ==
    \/ SetupLearningSession
    \/ CreateQuiz
    \/ SubmitQuiz

SpecQuiz == Init /\ [][NextQuiz]_vars

(***************************************************************************)
(* SpecScoring: quizzes are created and handed to score_quiz directly.      *)
(***************************************************************************)
\* the quizzes on record in student_progress
RECURSIVE TotalScored(_, _)
TotalScored(progress_all, keys) ==
    IF keys = {} THEN 0
    ELSE LET key == CHOOSE k \in keys : TRUE
         IN  progress_all[key].total_quizzes
               + TotalScored(progress_all, keys \ {key})

ScoreQuiz ==
    /\ current_session.active_quiz # <<>>
    /\ TotalScored(student_progress, DOMAIN student_progress) < MaxScored
    /\ \E user_answers \in ScoringAnswers :
       \E r \in {score_quiz(student_progress, current_session.active_quiz[1],
                            user_answers, today)} :
          /\ student_progress' = r.student_progress
          /\ call' = [NoCall EXCEPT
                        !.op = "score_quiz",
                        !.args = [quiz_session |-> current_session.active_quiz[1],
                                  user_answers |-> user_answers],
                        !.result = [r EXCEPT !.student_progress = <<>>]]
    /\ UNCHANGED <<student, today, current_session>>
    /\ UnchangedApi
    /\ UnchangedFiles

NextScoring ==
    \/ SetupLearningSession
    \/ CreateQuiz
    \/ ScoreQuiz

SpecScoring == Init /\ [][NextScoring]_vars

(***************************************************************************)
(* SpecPersist: the operations that save the ledger or the progress         *)
(* document, each on a disk that is writable, read-only or full for the     *)
(* length of the call.                                                      *)
(***************************************************************************)
AwardCoinsSaving ==
    /\ student.total_coins <= MaxCoins
    /\ \E amount \in SavedAwards, disk \in Disks,
          lucky \in LuckyDraws(student) :
       \E r \in {award_coins(student, amount, <<>>, lucky, today)} :
          /\ student' = r.student
          /\ files' = _save_student_profiles(files, student, r.student, disk)
          /\ call' = [NoCall EXCEPT
                        !.op = "award_coins", !.amount = amount,
                        !.lucky = lucky,
                        !.coins_awarded = r.coins_awarded,
                        !.current_coins = r.current_coins,
                        !.level = r.level,
                        !.ok = TRUE, !.error = "",
                        !.args = [disk |-> disk, writes |-> 1]]
    /\ UNCHANGED today
    /\ UnchangedQuiz
    /\ UnchangedApi

SpendCoinsSaving ==
    /\ \E amount \in SavedSpends, disk \in Disks :
       \E r \in {spend_coins(student, amount, today)} :
          /\ student' = r.student
          /\ files' = IF r.ok
                      THEN _save_student_profiles(files, student, r.student, disk)
                      ELSE files
          /\ call' = [NoCall EXCEPT
                        !.op = "spend_coins", !.amount = amount,
                        !.ok = r.ok, !.error = "",
                        !.args = [disk |-> disk,
                                  writes |-> IF r.ok THEN 1 ELSE 0]]
    /\ UNCHANGED today
    /\ UnchangedQuiz
    /\ UnchangedApi

\* update_activity returns None whatever happened
UpdateActivitySaving ==
    /\ \E activity_type \in SavedActivities, disk \in Disks,
          lucky \in LuckyDraws(student) :
       \E minutes \in (IF activity_type = "study" THEN StudyMinutes ELSE {0}),
          score \in (IF activity_type = "quiz" THEN ActivityScores ELSE {0}) :
          /\ activity_type = "quiz" => student.total_quizzes < MaxQuizzes
          /\ activity_type = "study" => student.study_minutes < MaxStudy
          /\ \E r \in {update_activity(student, activity_type, minutes, score,
                                       lucky, today, today)} :
                /\ student' = r.student
                /\ files' = _save_student_profiles(files, student, r.student, disk)
                /\ call' = [NoCall EXCEPT
                              !.op = "update_activity",
                              !.arg = activity_type,
                              !.coins_awarded = r.coins_awarded,
                              !.ok = TRUE, !.error = "",
                              !.args = [disk |-> disk, writes |-> 1]]
    /\ UNCHANGED today
    /\ UnchangedQuiz
    /\ UnchangedApi

\* score_quiz on a two-question easy Math quiz of the 5th grade
ScoreQuizSaving ==
    /\ TotalScored(student_progress, DOMAIN student_progress) < MaxScored
    /\ \E user_answers \in SavedAnswers, disk \in Disks :
       \E quiz_session \in generate_quiz(student_progress, "5th", "ICSE",
                                         "Math", "easy", 2, <<>>) :
       \E r \in {score_quiz(student_progress, quiz_session, user_answers,
                            today)} :
          /\ student_progress' = r.student_progress
          /\ files' = _save_student_progress(files, student_progress,
                                            r.student_progress, disk)
          /\ call' = [NoCall EXCEPT
                        !.op = "score_quiz",
                        !.amount = r.percentage,
                        !.ok = TRUE, !.error = r.exception,
                        !.args = [disk |-> disk, writes |-> 1]]
    /\ UNCHANGED <<student, today, current_session>>
    /\ UnchangedApi

NextPersist ==
    \/ AwardCoinsSaving
    \/ SpendCoinsSaving
    \/ UpdateActivitySaving
    \/ ScoreQuizSaving

SpecPersist == Init /\ [][NextPersist]_vars

(***************************************************************************)
(* SpecWindow: up to MaxHistory quizzes of one subject and grade are        *)
(* scored, each with no answers or with both answers right.                 *)
(***************************************************************************)
ScoreQuizAgain ==
    /\ TotalScored(student_progress, DOMAIN student_progress) < MaxHistory
    /\ \E user_answers \in WindowAnswers :
       \E quiz_session \in generate_quiz(student_progress, "5th", "ICSE",
                                         "Math", "easy", 2, <<>>) :
       \E r \in {score_quiz(student_progress, quiz_session, user_answers,
                            today)} :
          /\ student_progress' = r.student_progress
          /\ call' = [NoCall EXCEPT !.op = "score_quiz",
                                    !.amount = r.percentage]
    /\ UNCHANGED <<student, today, current_session>>
    /\ UnchangedApi
    /\ UnchangedFiles

NextWindow == ScoreQuizAgain

SpecWindow == Init /\ [][NextWindow]_vars

(***************************************************************************)
(* SpecSelect: _select_questions applied once to a pool of up to MaxPool    *)
(* questions with topics of PoolTopics, for every request of 0..MaxPool     *)
(* questions and every outcome of random.sample.                            *)
(***************************************************************************)
\* the pools of n questions
Pools(n) ==
    { [i \in 1..n |-> Q(PoolQuestionIds[i], "easy", topics[i], 0)] :
        topics \in [1..n -> PoolTopics] }

ChoosePool ==
    /\ call.op = "init"
    /\ \E n \in 0..MaxPool, num_questions \in 0..MaxPool :
       \E questions_pool \in Pools(n) :
          call' = [NoCall EXCEPT
                     !.op = "pool",
                     !.args = [questions_pool |-> questions_pool,
                               num_questions |-> num_questions]]
    /\ UNCHANGED <<student, today, current_session, student_progress>>
    /\ UnchangedApi
    /\ UnchangedFiles

SelectQuestions ==
    /\ call.op = "pool"
    /\ \E selected \in _select_questions(call.args.questions_pool,
                                         call.args.num_questions, "easy") :
          call' = [call EXCEPT !.op = "_select_questions",
                               !.result = selected]
    /\ UNCHANGED <<student, today, current_session, student_progress>>
    /\ UnchangedApi
    /\ UnchangedFiles

NextSelect ==
    \/ ChoosePool
    \/ SelectQuestions

SpecSelect == Init /\ [][NextSelect]_vars

(***************************************************************************)
(* SpecLeaderboard: get_leaderboard for every list of up to MaxStudents     *)
(* profiles with the ledgers of LeaderboardLedgers.                         *)
(***************************************************************************)
\* the lists of n profiles; the i-th profile has the student_id i
Profiles(n) ==
    { [i \in 1..n |-> [ student_id |-> i,
                        total_coins |-> ledgers[i].total_coins,
                        level |-> ledgers[i].level,
                        experience_points |-> ledgers[i].experience_points,
                        streak_days |-> ledgers[i].streak_days,
                        total_quizzes |-> ledgers[i].total_quizzes ]] :
        ledgers \in [1..n -> LeaderboardLedgers] }

GetLeaderboard ==
    /\ \E n \in 0..MaxStudents, metric \in LeaderboardMetrics,
          limit \in LeaderboardLimits :
       \E students \in Profiles(n) :
          call' = [NoCall EXCEPT
                     !.op = "get_leaderboard",
                     !.args = [students |-> students, metric |-> metric,
                               limit |-> limit],
                     !.result = get_leaderboard(students, metric, limit)]
    /\ UNCHANGED <<student, today, current_session, student_progress>>
    /\ UnchangedApi
    /\ UnchangedFiles

NextLeaderboard == GetLeaderboard

SpecLeaderboard == Init /\ [][NextLeaderboard]_vars

(***************************************************************************)
(* SpecGenerate: generate_quiz called directly, for every grade, subject,   *)
(* difficulty, length and topic filter of the input sets.                   *)
(***************************************************************************)
GenerateQuiz ==
    /\ \E grade \in GenerateGrades, subject \in GenerateSubjects,
          difficulty \in GenerateDifficulties,
          num_questions \in GenerateLengths, topics \in GenerateTopics :
       \E resolved \in {IF difficulty = "auto"
                        THEN _get_adaptive_difficulty(student_progress,
                                                      subject, grade)
                        ELSE difficulty} :
       \E quiz_session \in generate_quiz(student_progress, grade, "ICSE",
                                         subject, difficulty, num_questions,
                                         topics) :
          call' = [NoCall EXCEPT
                     !.op = "generate_quiz",
                     !.args = [grade |-> grade, subject |-> subject,
                               difficulty |-> difficulty,
                               num_questions |-> num_questions,
                               topics |-> topics,
                               questions_pool |->
                                   CandidatePool(grade, subject, resolved,
                                                 topics)],
                     !.result = quiz_session]
    /\ UNCHANGED <<student, today, current_session, student_progress>>
    /\ UnchangedApi
    /\ UnchangedFiles

NextGenerate == GenerateQuiz

SpecGenerate == Init /\ [][NextGenerate]_vars

(***************************************************************************)
(* SpecTiers: _calculate_coins and _recommend_next_difficulty applied, as   *)
(* score_quiz applies them, to the percentage of every score of a quiz of   *)
(* up to MaxQuestions questions.                                            *)
(***************************************************************************)
CalculateCoins ==
    /\ \E total \in 1..MaxQuestions, difficulty \in TierDifficulties :
       \E correct \in 0..total :
          call' = [NoCall EXCEPT
                     !.op = "_calculate_coins",
                     !.args = [correct |-> correct, total |-> total,
                               percentage |-> Percent(correct, total),
                               difficulty |-> difficulty],
                     !.result = _calculate_coins(Percent(correct, total),
                                                 difficulty)]
    /\ UNCHANGED <<student, today, current_session, student_progress>>
    /\ UnchangedApi
    /\ UnchangedFiles

RecommendNextDifficulty ==
    /\ \E total \in 1..MaxQuestions, difficulty \in TierDifficulties :
       \E correct \in 0..total :
          call' = [NoCall EXCEPT
                     !.op = "_recommend_next_difficulty",
                     !.args = [correct |-> correct, total |-> total,
                               percentage |-> Percent(correct, total),
                               difficulty |-> difficulty],
                     !.result = _recommend_next_difficulty(
                                    Percent(correct, total), difficulty)]
    /\ UNCHANGED <<student, today, current_session, student_progress>>
    /\ UnchangedApi
    /\ UnchangedFiles

NextTiers ==
    \/ CalculateCoins
    \/ RecommendNextDifficulty

SpecTiers == Init /\ [][NextTiers]_vars

(***************************************************************************)
(* SpecApi: each worker thread serves one request that calls                *)
(* GameState.add_coins or, through buy_perk, GameState.spend_coins; the     *)
(* threads' reads and writes of game_state interleave freely.               *)
(***************************************************************************)
UnchangedTutor ==
    /\ UNCHANGED <<student, today, call, current_session, student_progress,
                   files>>
    /\ UnchangedMonitor

\* the cost of the perk a buy_perk request names
PerkCost(request) == PERKS_SHOP[request.amount + 1].cost

\* a handler calls game_state.add_coins(amount)
ReceiveAddCoins(t) ==
    /\ requests[t].pc = "idle"
    /\ \E amount \in AddAmounts :
          requests' = [requests EXCEPT ![t] =
              [NoRequest EXCEPT !.op = "add_coins", !.amount = amount,
                                !.pc = "add_load_coins"]]
    /\ UNCHANGED game_state
    /\ UnchangedTutor

\* add_coins, self.coins += amount: the read
AddCoinsLoad(t) ==
    /\ requests[t].pc = "add_load_coins"
    /\ requests' = [requests EXCEPT ![t].tmp = game_state.coins,
                                    ![t].pc = "add_store_coins"]
    /\ UNCHANGED game_state
    /\ UnchangedTutor

\* add_coins, self.coins += amount: the write
AddCoinsStore(t) ==
    /\ requests[t].pc = "add_store_coins"
    /\ game_state' = [game_state EXCEPT
                        !.coins = requests[t].tmp + requests[t].amount]
    /\ requests' = [requests EXCEPT ![t].pc = "add_load_total"]
    /\ UnchangedTutor

\* add_coins, self.total_coins_earned += amount: the read
AddTotalLoad(t) ==
    /\ requests[t].pc = "add_load_total"
    /\ requests' = [requests EXCEPT ![t].tmp = game_state.total_coins_earned,
                                    ![t].pc = "add_store_total"]
    /\ UNCHANGED game_state
    /\ UnchangedTutor

\* add_coins, self.total_coins_earned += amount: the write
AddTotalStore(t) ==
    /\ requests[t].pc = "add_store_total"
    /\ game_state' = [game_state EXCEPT
                        !.total_coins_earned =
                            requests[t].tmp + requests[t].amount]
    /\ requests' = [requests EXCEPT ![t].pc = "done", ![t].ok = TRUE]
    /\ UnchangedTutor

\* api_buy_perk: the test of perk_index
ReceiveBuyPerk(t) ==
    /\ requests[t].pc = "idle"
    /\ \E perk_index \in PerkIndexes :
          requests' = [requests EXCEPT ![t] =
              [NoRequest EXCEPT
                 !.op = "buy_perk", !.amount = perk_index,
                 !.pc = IF 0 <= perk_index /\ perk_index < Len(PERKS_SHOP)
                        THEN "spend_check" ELSE "done"]]
    /\ UNCHANGED game_state
    /\ UnchangedTutor

\* spend_coins: if self.coins >= amount
SpendCoinsCheck(t) ==
    /\ requests[t].pc = "spend_check"
    /\ requests' = [requests EXCEPT ![t].pc =
                        IF game_state.coins >= PerkCost(requests[t])
                        THEN "spend_load" ELSE "done"]
    /\ UNCHANGED game_state
    /\ UnchangedTutor

\* spend_coins, self.coins -= amount: the read
SpendCoinsLoad(t) ==
    /\ requests[t].pc = "spend_load"
    /\ requests' = [requests EXCEPT ![t].tmp = game_state.coins,
                                    ![t].pc = "spend_store"]
    /\ UNCHANGED game_state
    /\ UnchangedTutor

\* spend_coins, self.coins -= amount: the write; return True
SpendCoinsStore(t) ==
    /\ requests[t].pc = "spend_store"
    /\ game_state' = [game_state EXCEPT
                        !.coins = requests[t].tmp - PerkCost(requests[t])]
    /\ requests' = [requests EXCEPT ![t].pc = "buy_append", ![t].ok = TRUE]
    /\ UnchangedTutor

\* api_buy_perk: game_state.unlocked_perks.append(perk["name"])
BuyPerkAppend(t) ==
    /\ requests[t].pc = "buy_append"
    /\ game_state' = [game_state EXCEPT
                        !.unlocked_perks =
                            Append(@, PERKS_SHOP[requests[t].amount + 1].name)]
    /\ requests' = [requests EXCEPT ![t].pc = "done"]
    /\ UnchangedTutor

NextApi ==
    \E t \in Threads :
        \/ ReceiveAddCoins(t)
        \/ AddCoinsLoad(t)
        \/ AddCoinsStore(t)
        \/ AddTotalLoad(t)
        \/ AddTotalStore(t)
        \/ ReceiveBuyPerk(t)
        \/ SpendCoinsCheck(t)
        \/ SpendCoinsLoad(t)
        \/ SpendCoinsStore(t)
        \/ BuyPerkAppend(t)

SpecApi == Init /\ [][NextApi]_vars

(***************************************************************************)
(* Properties                                                               *)
(***************************************************************************)
\* what one step added to the ledger
NewlyUnlocked ==
    SubSeq(student'.achievements, Len(student.achievements) + 1,
           Len(student'.achievements))

LevelUpBonus ==
    IF student'.level > student.level THEN student'.level * 20 ELSE 0

\* requirement(L) as the level rule states it, for every L >= 1
Requirement(L) == IF L = 1 THEN 0 ELSE (L - 1) * (L - 1) * 50

\* C1: from a new student (100 coins), after every sequence of award_coins
\* (amount >= 0), spend_coins (amount >= 0), purchase_perk and
\* update_activity calls, current_coins >= 0.
C1_CoinsNeverNegative == student.current_coins >= 0

\* a spend has taken the balance to exactly 0
C1_Witness ==
    /\ call.op = "spend_coins" /\ call.ok /\ call.amount > 0
    /\ student.current_coins = 0

\* C2: spend_coins(amount) returns True iff current_coins >= amount at the
\* call; on success it subtracts exactly amount from current_coins and
\* leaves total_coins, experience_points, level, achievements and
\* owned_perks unchanged; on failure it changes no ledger field.
C2_SpendCoinsContract ==
    [][ call'.op = "spend_coins" =>
          /\ call'.ok <=> (student.current_coins >= call'.amount)
          /\ call'.ok =>
               /\ student'.current_coins = student.current_coins - call'.amount
               /\ student'.total_coins = student.total_coins
               /\ student'.experience_points = student.experience_points
               /\ student'.level = student.level
               /\ student'.achievements = student.achievements
               /\ student'.owned_perks = student.owned_perks
          /\ ~call'.ok => student' = student ]_vars

\* spend_coins(50) has failed on a balance of 40, which is still 40
C2_Witness ==
    /\ call.op = "spend_coins" /\ ~call.ok /\ call.amount = 50
    /\ student.current_coins = 40

\* C3: a quiz session is scored at most once: once submit_quiz has run on
\* the active quiz, no quiz is active until create_quiz stores a new one, and
\* every submit_quiz issued while none is active returns an error result and
\* changes neither the progress record nor the ledger.
C3_QuizScoredAtMostOnce ==
    /\ [](call.op = "submit_quiz" => current_session.active_quiz = <<>>)
    /\ [][ /\ (current_session'.active_quiz # <<>>
                 /\ current_session'.active_quiz # current_session.active_quiz)
                => (call'.op = "create_quiz" /\ call'.ok)
           /\ (call'.op = "submit_quiz" /\ current_session.active_quiz = <<>>)
                => /\ call'.error # ""
                   /\ student_progress' = student_progress
                   /\ student' = student ]_vars

\* a quiz has been scored and a further submit_quiz has been turned down
C3_Witness ==
    /\ call.op = "submit_quiz" /\ call.error # ""
    /\ student.total_quizzes >= 1
    /\ \E key \in DOMAIN student_progress :
          student_progress[key].total_quizzes >= 1

\* C4: update_activity on the calendar day right after the day of the
\* previous last_activity raises streak_days by exactly 1 and makes
\* longest_streak the maximum of its old value and the new streak_days.
C4_NextDayIncrementsStreak ==
    [][ (call'.op = "update_activity" /\ today = student.last_activity + 1) =>
          /\ student'.streak_days = student.streak_days + 1
          /\ student'.longest_streak =
                IF student'.streak_days > student.longest_streak
                THEN student'.streak_days ELSE student.longest_streak ]_vars

\* C5: update_activity two or more calendar days after the day of the
\* previous last_activity resets streak_days to 1.
C5_GapResetsStreak ==
    [][ (call'.op = "update_activity" /\ today >= student.last_activity + 2) =>
          student'.streak_days = 1 ]_vars

\* C6: every award_coins call floors the final amount to an integer F,
\* reports it as coins_awarded, adds exactly F to experience_points, and adds
\* F to current_coins and to total_coins, next to the level-up bonus and the
\* achievement rewards granted in the same call.
C6_AwardCreditsFlooredAmount ==
    [][ call'.op = "award_coins" =>
          LET F == call'.coins_awarded
              exact == FinalAmountExact(student, call'.amount,
                                        call'.multipliers, call'.lucky)
              R == SumRewards(NewlyUnlocked)
          IN  /\ F * exact.d <= exact.n
              /\ exact.n < (F + 1) * exact.d
              /\ student'.experience_points = student.experience_points + F
              /\ student'.current_coins =
                    student.current_coins + F + LevelUpBonus + R
              /\ student'.total_coins - (student.total_coins + F + R)
                    \in {0, LevelUpBonus} ]_vars

\* award_coins(25) with a 1.5 multiplier has awarded floor(37.5) = 37
C6_Witness ==
    /\ call.op = "award_coins" /\ call.amount = 25
    /\ call.coins_awarded = 37

\* C7: whenever an award_coins call raises the level to new_level, a bonus
\* of new_level * 20 coins is added to both current_coins and total_coins.
C7_LevelBonusToBothTotals ==
    [][ (call'.op = "award_coins" /\ student'.level > student.level) =>
          LET F == call'.coins_awarded
              R == SumRewards(NewlyUnlocked)
              B == student'.level * 20
          IN  /\ student'.current_coins = student.current_coins + F + B + R
              /\ student'.total_coins = student.total_coins + F + B + R ]_vars

C9_LevelMonotonic ==
    /\ [](student.level >= 1)
    /\ [][student'.level >= student.level]_vars

\* the level has risen and calls have gone on since
C9_Witness ==
    /\ student.level >= 2
    /\ call.op = "award_coins" /\ call.level = student.level
    /\ call.coins_awarded < Requirement(2)

\* C10: each achievement unlocks at most once: an id appears at most once in
\* the unlocked list, its reward_coins are credited at most once, and
\* running the evaluator again on a ledger where it is unlocked credits
\* nothing for it.
C10_AchievementsUnlockOnce ==
    /\ [](/\ NoDuplicates(student.achievements)
          /\ LET again == _check_achievements(student)
             IN  /\ IsPrefix(student.achievements, again.student.achievements)
                 /\ NoDuplicates(again.student.achievements)
                 /\ \A i \in 1..Len(again.new_achievements) :
                        ~Contains(student.achievements,
                                  again.new_achievements[i])
                 /\ again.student.total_coins =
                        student.total_coins
                          + SumRewards(again.new_achievements)
                 /\ again.student.current_coins =
                        student.current_coins
                          + SumRewards(again.new_achievements))
    /\ [][ /\ IsPrefix(student.achievements, student'.achievements)
           /\ student'.total_coins
                 - (student.total_coins + call'.coins_awarded
                      + SumRewards(NewlyUnlocked))
                 \in {0, LevelUpBonus} ]_vars

\* the evaluator has run on a ledger holding first_quiz and unlocked nothing
C10_Witness ==
    /\ call.op = "award_coins" /\ call.new_achievements = <<>>
    /\ Contains(student.achievements, "first_quiz")

\* C11: after every activity recorded through update_activity the
\* achievement evaluator has run on the updated ledger: an achievement whose
\* requirement the activity just satisfied is in the unlocked list when the
\* call returns.
C11_ActivityEvaluatesAchievements ==
    [][ call'.op = "update_activity" =>
          \A i \in 1..Len(achievements) :
              ( /\ ~_check_achievement_requirement(student, achievements[i])
                /\ _check_achievement_requirement(student', achievements[i]) )
              => Contains(student'.achievements, achievements[i].id) ]_vars

\* one request run alone on a balance: the balance it leaves
SerialCoins(coins, request) ==
    IF request.op = "add_coins" THEN coins + request.amount
    ELSE IF request.op = "buy_perk" /\ request.amount < Len(PERKS_SHOP)
            /\ coins >= PerkCost(request)
    THEN coins - PerkCost(request)
    ELSE coins

\* C12: two coin operations of the same student that run concurrently do
\* not interleave their read-modify-write of the balance: once both are
\* done the balance is the one some serial order of the two leaves, and the
\* balance is never below 0.
C12_CoinOperationsSerialized ==
    /\ game_state.coins >= 0
    /\ (\A t \in Threads : requests[t].pc = "done") =>
          \E first \in Threads : \E second \in Threads \ {first} :
              game_state.coins =
                  SerialCoins(SerialCoins(NewGameState.coins, requests[first]),
                              requests[second])

\* C13: score_quiz's score is the number of question positions that have
\* a submitted answer equal to the question's correct_answer; positions
\* without an answer count as incorrect, answers beyond the last question
\* are ignored, and the reported total is the session's number of questions.
C13_ScoreCountsCorrectPositions ==
    call.op = "score_quiz" =>
        LET questions == call.args.quiz_session.questions
            answers == call.args.user_answers
        IN  /\ call.result.score =
                  Cardinality({ i \in 1..Len(questions) :
                                  /\ i <= Len(answers)
                                  /\ answers[i] = questions[i].correct_answer })
            /\ call.result.total = Len(questions)

\* two answers for three questions, the first of which has correct_answer
\* 0: both given answers are right, the third question has none
C13_Witness ==
    /\ call.op = "score_quiz"
    /\ Len(call.args.user_answers) = 2
    /\ Len(call.args.quiz_session.questions) = 3
    /\ call.result.score = 2 /\ call.result.total = 3

\* C14: the percentage score_quiz returns lies in [0, 100]; for a session
\* with total_questions = 0 the result is 0 percent, computed without a
\* division by zero and without an error.
C14_PercentageInRangeNoDivisionByZero ==
    call.op = "score_quiz" =>
        /\ 0 <= call.result.percentage /\ call.result.percentage <= 1000
        /\ call.args.quiz_session.total_questions = 0 =>
              /\ call.result.percentage = 0
              /\ call.result.exception = ""

\* comparisons of a percentage n/d with an integer or another percentage
AtLeast(percentage, bound) == percentage.n >= bound * percentage.d

LessOrEqual(p1, p2) == p1.n * p2.d <= p2.n * p1.d

\* C15: the coins of a scored quiz are base(difficulty), 10 for easy, 20
\* for medium and 30 for hard, scaled by the tier of the percentage:
\* >= 90 gives base * 3, >= 80 base * 2, >= 60 floor(base * 1.5), >= 40
\* base, and anything lower max(5, base // 2).
C15_CoinsFollowTierTable ==
    (call.op = "_calculate_coins"
       /\ call.args.difficulty \in {"easy", "medium", "hard"}) =>
        LET p == call.args.percentage
            base == [easy |-> 10, medium |-> 20, hard |-> 30][call.args.difficulty]
            half == base \div 2
        IN  /\ AtLeast(p, 90) => call.result = base * 3
            /\ (AtLeast(p, 80) /\ ~AtLeast(p, 90)) => call.result = base * 2
            /\ (AtLeast(p, 60) /\ ~AtLeast(p, 80)) =>
                  (2 * call.result <= 3 * base /\ 3 * base < 2 * call.result + 2)
            /\ (AtLeast(p, 40) /\ ~AtLeast(p, 60)) => call.result = base
            /\ ~AtLeast(p, 40) =>
                  call.result = (IF half >= 5 THEN half ELSE 5)

\* an easy quiz with 4 of 5 correct: 80 percent and 20 coins
C15_Witness ==
    /\ call.op = "_calculate_coins" /\ call.args.difficulty = "easy"
    /\ call.args.correct = 4 /\ call.args.total = 5
    /\ call.args.percentage = [n |-> 80, d |-> 1]
    /\ call.result = 20

\* C16: at a fixed difficulty among easy, medium and hard, a percentage p1
\* never earns more coins than a percentage p2 >= p1.
C16_CoinsMonotonicInPercentage ==
    [][ ( /\ call.op = "_calculate_coins" /\ call'.op = "_calculate_coins"
          /\ call.args.difficulty \in {"easy", "medium", "hard"}
          /\ call'.args.difficulty = call.args.difficulty
          /\ LessOrEqual(call.args.percentage, call'.args.percentage) )
        => call.result <= call'.result ]_vars

\* a hard quiz scored below 40 percent has earned its 15 coins
C16_Witness ==
    /\ call.op = "_calculate_coins" /\ call.args.difficulty = "hard"
    /\ ~AtLeast(call.args.percentage, 40)
    /\ call.result = 15

\* the tiers, in order, with the thresholds the recommendation uses
Tiers == <<"easy", "medium", "hard">>

PromoteAt == [easy |-> 80, medium |-> 85, hard |-> 90]

DemoteBelow == [easy |-> 40, medium |-> 50, hard |-> 60]

TierIndex(difficulty) == CHOOSE i \in 1..Len(Tiers) : Tiers[i] = difficulty

\* C17: for a current difficulty among easy, medium and hard the
\* recommendation moves up exactly one tier (capped at hard) when the
\* percentage >= promote(current), down exactly one tier (floored at easy)
\* when it is < demote(current), and otherwise stays; the thresholds are
\* easy 80/40, medium 85/50, hard 90/60.
C17_RecommendationMovesOneTier ==
    (call.op = "_recommend_next_difficulty"
       /\ call.args.difficulty \in {"easy", "medium", "hard"}) =>
        LET p == call.args.percentage
            current == TierIndex(call.args.difficulty)
            next == IF AtLeast(p, PromoteAt[call.args.difficulty])
                    THEN (IF current = 3 THEN 3 ELSE current + 1)
                    ELSE IF ~AtLeast(p, DemoteBelow[call.args.difficulty])
                    THEN (IF current = 1 THEN 1 ELSE current - 1)
                    ELSE current
        IN  call.result = Tiers[next]

\* a medium quiz at 80 percent, below medium's promote threshold of 85,
\* stays at medium
C17_Witness ==
    /\ call.op = "_recommend_next_difficulty"
    /\ call.args.difficulty = "medium"
    /\ call.args.percentage = [n |-> 80, d |-> 1]
    /\ call.result = "medium"

\* the progress key of the session's subject and grade
SessionKey == <<current_session.subject, current_session.grade>>

\* the product of the denominators of a list of percentages
RECURSIVE Denominators(_)
Denominators(scores) ==
    IF scores = <<>> THEN 1 ELSE Head(scores).d * Denominators(Tail(scores))

\* the sum of a list of percentages, as a numerator over `denominator`
RECURSIVE SumOver(_, _)
SumOver(scores, denominator) ==
    IF scores = <<>> THEN 0
    ELSE Head(scores).n * (denominator \div Head(scores).d)
           + SumOver(Tail(scores), denominator)

\* the average of a non-empty list of percentages is at least `bound`
AverageAtLeast(scores, bound) ==
    SumOver(scores, Denominators(scores))
        >= bound * Len(scores) * Denominators(scores)

\* C18: for a (subject, grade) with quiz history, difficulty "auto" is
\* resolved from the average of the recent_scores window with the threshold
\* table of the post-quiz recommendation: an average at or above the
\* promote threshold of the recorded current difficulty yields a tier above
\* easy.
C18_AutoDifficultyFromRecentAverage ==
    ( /\ call.op = "create_quiz" /\ call.arg = "auto" /\ call.ok
      /\ SessionKey \in DOMAIN student_progress
      /\ student_progress[SessionKey].current_difficulty \in DOMAIN PromoteAt
      /\ AverageAtLeast(student_progress[SessionKey].recent_scores,
             PromoteAt[student_progress[SessionKey].current_difficulty]) )
    => current_session.active_quiz[1].difficulty_level \in {"medium", "hard"}

\* C19: for a (subject, grade) with no progress record, "auto" is resolved
\* to easy.
C19_NoHistoryStartsEasy ==
    ( /\ call.op = "create_quiz" /\ call.arg = "auto" /\ call.ok
      /\ SessionKey \notin DOMAIN student_progress )
    => current_session.active_quiz[1].difficulty_level = "easy"

\* an "auto" quiz for a subject and grade without a record, created while
\* another (subject, grade) has one
C19_Witness ==
    /\ call.op = "create_quiz" /\ call.arg = "auto" /\ call.ok
    /\ SessionKey \notin DOMAIN student_progress
    /\ DOMAIN student_progress # {}
    /\ current_session.active_quiz[1].difficulty_level = "easy"
    /\ current_session.active_quiz[1].total_questions > 0

\* the session of the last generate_quiz call holds `count` pairwise
\* distinct questions of the pool that was used, and says so
HoldsFromPool(count) ==
    LET questions == call.result.questions
        questions_pool == call.args.questions_pool
    IN  /\ Len(questions) = count
        /\ call.result.total_questions = count
        /\ \A i, j \in 1..Len(questions) :
              i # j => questions[i] # questions[j]
        /\ \A i \in 1..Len(questions) : Contains(questions_pool, questions[i])

\* C20 as stated: for every generate_quiz call the session holds exactly
\* min(num_questions, size of the pool used) pairwise distinct questions of
\* that pool, and total_questions is that number.
C20_SessionHoldsMinOfRequestedAndPool ==
    call.op = "generate_quiz" =>
        HoldsFromPool(Min(call.args.num_questions,
                          Len(call.args.questions_pool)))

\* C20, amended: the same for every generate_quiz call with
\* num_questions >= 0.
C20_SessionHoldsMinForNaturalRequests ==
    (call.op = "generate_quiz" /\ call.args.num_questions >= 0) =>
        HoldsFromPool(Min(call.args.num_questions,
                          Len(call.args.questions_pool)))

\* three questions out of a larger pool that is the fallback pool of the
\* subject
C20_Witness ==
    /\ call.op = "generate_quiz"
    /\ call.args.num_questions = 3
    /\ Len(call.args.questions_pool) > 3
    /\ call.args.questions_pool
         = _get_fallback_questions(call.args.subject, call.args.grade)
    /\ Len(call.result.questions) = 3
    /\ call.result.questions[1] # call.result.questions[3]

\* C21: whenever generate_quiz is called with a non-empty topics filter,
\* every question of the returned session has one of the requested topics.
C21_QuestionsWithinRequestedTopics ==
    (call.op = "generate_quiz" /\ call.args.topics # <<>>) =>
        \A i \in 1..Len(call.result.questions) :
            Contains(call.args.topics, call.result.questions[i].topic)

\* C22: when the filtered pool and the subject-wide fallback pool are both
\* empty, generate_quiz returns a session of exactly one placeholder
\* question (total_questions = 1), not an empty session.
C22_EmptyPoolsGivePlaceholderQuiz ==
    (call.op = "generate_quiz" /\ call.args.questions_pool = <<>>) =>
        /\ Len(call.result.questions) = 1
        /\ call.result.total_questions = 1
        /\ call.result.questions[1].id = "fallback_1"

\* the number of times a perk id occurs in owned_perks
Owned(s, perk_id) ==
    Cardinality({i \in 1..Len(s.owned_perks) : s.owned_perks[i] = perk_id})

\* C23: purchase_perk fails (success = False) and changes none of
\* current_coins, total_coins and owned_perks whenever the perk id is
\* unknown, the perk is already owned, or current_coins is below its cost.
C23_RejectedPurchaseChangesNothing ==
    [][ ( /\ call'.op = "purchase_perk"
          /\ \/ call'.arg \notin DOMAIN perks
             \/ Contains(student.owned_perks, call'.arg)
             \/ student.current_coins < perks[call'.arg] )
        => /\ ~call'.ok
           /\ student'.current_coins = student.current_coins
           /\ student'.total_coins = student.total_coins
           /\ student'.owned_perks = student.owned_perks ]_vars

\* the lucky charm was refused to a student who owns it and could pay for
\* it again
C23_Witness ==
    /\ call.op = "purchase_perk" /\ call.arg = "lucky_charm" /\ ~call.ok
    /\ Contains(student.owned_perks, "lucky_charm")
    /\ student.current_coins >= perks["lucky_charm"]

\* C24: for every catalog perk the student does not own and can pay for,
\* purchase_perk succeeds, takes exactly the cost from current_coins,
\* leaves total_coins, experience_points and level alone, and adds the perk
\* id to owned_perks exactly once.
C24_PurchaseTakesCostAndAddsPerk ==
    [][ ( /\ call'.op = "purchase_perk"
          /\ call'.arg \in DOMAIN perks
          /\ ~Contains(student.owned_perks, call'.arg)
          /\ student.current_coins >= perks[call'.arg] )
        => /\ call'.ok
           /\ student'.current_coins
                = student.current_coins - perks[call'.arg]
           /\ student'.total_coins = student.total_coins
           /\ student'.experience_points = student.experience_points
           /\ student'.level = student.level
           /\ student'.owned_perks = Append(student.owned_perks, call'.arg)
           /\ Owned(student', call'.arg) = 1 ]_vars

\* the lucky charm was bought for 90 of the 100 starting coins
C24_Witness ==
    /\ call.op = "purchase_perk" /\ call.arg = "lucky_charm" /\ call.ok
    /\ student.owned_perks = <<"lucky_charm">>
    /\ student.current_coins = 10 /\ student.total_coins = 100

\* C25: when scoring fails internally (here: a session with zero
\* questions), the result carries 0 coins and submit_quiz credits no coins
\* to the ledger for that submission.
C25_FailedScoringCreditsNothing ==
    [][ ( /\ call'.op = "submit_quiz" /\ call'.error = ""
          /\ current_session.active_quiz # <<>>
          /\ current_session.active_quiz[1].total_questions = 0 )
        => /\ call'.coins_awarded = 0
           /\ student'.current_coins = student.current_coins
           /\ student'.total_coins = student.total_coins ]_vars

\* C26: when the write of the ledger or progress document fails during
\* award_coins, spend_coins, update_activity or score_quiz, the result of
\* that operation indicates the failure; it is not swallowed while the
\* operation reports success.
C26_FailedWriteIsSurfaced ==
    ( /\ call.op \in {"award_coins", "spend_coins", "update_activity",
                      "score_quiz"}
      /\ call.args.writes > 0
      /\ call.args.disk # "ok" )
    => (~call.ok \/ call.error # "")

\* the position of a student in the list get_leaderboard was given
InputPosition(student_id) ==
    CHOOSE i \in 1..Len(call.args.students) :
        call.args.students[i].student_id = student_id

\* C27: for metric "total_coins" the scores of the entries are
\* non-increasing from first to last, the first entry has the maximum
\* total_coins of all students, and students with equal scores keep their
\* input order.
C27_LeaderboardSortedAndStable ==
    (call.op = "get_leaderboard" /\ call.args.metric = "total_coins") =>
        LET entries == call.result
        IN  /\ \A i, j \in 1..Len(entries) :
                  i < j => entries[i].score >= entries[j].score
            /\ Len(entries) > 0 =>
                  \A k \in 1..Len(call.args.students) :
                     entries[1].score >= call.args.students[k].total_coins
            /\ \A i \in 1..Len(entries) :
                  entries[i].score
                    = call.args.students[InputPosition(entries[i].student_id)]
                          .total_coins
            /\ \A i, j \in 1..Len(entries) :
                  (i < j /\ entries[i].score = entries[j].score) =>
                      InputPosition(entries[i].student_id)
                        < InputPosition(entries[j].student_id)

\* three students, the last two tied above the first: both are ranked
\* before it and in their input order
C27_Witness ==
    /\ call.op = "get_leaderboard" /\ call.args.metric = "total_coins"
    /\ Len(call.args.students) = 3
    /\ call.args.students[1].total_coins = 100
    /\ call.args.students[2].total_coins = 150
    /\ call.args.students[3].total_coins = 150
    /\ Len(call.result) = 3
    /\ call.result[1].student_id = 2
    /\ call.result[2].student_id = 3
    /\ call.result[3].student_id = 1

\* s is a suffix of t
IsSuffix(s, t) ==
    Len(s) <= Len(t) /\ SubSeq(t, Len(t) - Len(s) + 1, Len(t)) = s

\* C28: after any sequence of score_quiz calls for a (subject, grade), the
\* recent_scores of the progress record is a suffix of its scores and has
\* at most 10 elements.
C28_RecentScoresIsBoundedSuffix ==
    \A key \in DOMAIN student_progress :
        /\ IsSuffix(student_progress[key].recent_scores,
                    student_progress[key].scores)
        /\ Len(student_progress[key].recent_scores) <= 10

\* eleven quizzes, the first one perfect and the others not: the window
\* holds the last ten scores and has dropped the first
C28_Witness ==
    /\ <<"Math", "5th">> \in DOMAIN student_progress
    /\ Len(student_progress[<<"Math", "5th">>].scores) = 11
    /\ Len(student_progress[<<"Math", "5th">>].recent_scores) = 10
    /\ student_progress[<<"Math", "5th">>].scores[1] = [n |-> 100, d |-> 1]
    /\ \A i \in 1..10 :
          student_progress[<<"Math", "5th">>].recent_scores[i]
            = [n |-> 0, d |-> 1]

\* the topics of a list of questions
TopicsOf(questions) == {questions[i].topic : i \in 1..Len(questions)}

\* C29: whenever the pool has more questions than num_questions and no
\* more distinct topics than num_questions, the selected questions include
\* a question of every topic of the pool, whatever random.sample returns.
C29_EveryTopicIsSelected ==
    ( /\ call.op = "_select_questions"
      /\ Len(call.args.questions_pool) > call.args.num_questions
      /\ Cardinality(TopicsOf(call.args.questions_pool))
           <= call.args.num_questions )
    => TopicsOf(call.result) = TopicsOf(call.args.questions_pool)

\* three of four questions of two topics: one per topic and one of the
\* two that were left
C29_Witness ==
    /\ call.op = "_select_questions"
    /\ Len(call.args.questions_pool) = 4
    /\ call.args.num_questions = 3
    /\ Cardinality(TopicsOf(call.args.questions_pool)) = 2
    /\ Len(call.result) = 3
    /\ Cardinality(TopicsOf(call.result)) = 2

\* the amount multiplied by the value of every multiplier of the list
RECURSIVE MultiplyAll(_, _)
MultiplyAll(f, multipliers) ==
    IF multipliers = <<>> THEN f
    ELSE MultiplyAll([n |-> f.n * Head(multipliers).n,
                      d |-> f.d * Head(multipliers).d],
                     Tail(multipliers))

\* C30: award_coins applies every caller-supplied named multiplier by
\* multiplying the amount by its value, whatever the multiplier's name
\* (stated for awards with no streak bonus, no double_coins perk and no
\* lucky bonus, where nothing else changes the amount).
C30_EveryNamedMultiplierApplies ==
    [][ ( /\ call'.op = "award_coins"
          /\ student.streak_days < 7
          /\ ~Contains(student.owned_perks, "double_coins")
          /\ call'.lucky = 0 )
        => LET exact == MultiplyAll([n |-> call'.amount, d |-> 1],
                                    call'.multipliers)
           IN  call'.coins_awarded = Trunc(exact.n, exact.d) ]_vars

\* C31: every question of a session returned by generate_quiz has the
\* difficulty that is the session's difficulty_level.
C31_QuestionsMatchSessionDifficulty ==
    call.op = "generate_quiz" =>
        \A i \in 1..Len(call.result.questions) :
            call.result.questions[i].difficulty
              = call.result.difficulty_level

\* a quiz scored at 100 percent is on record for some subject and grade
PerfectQuizOnRecord ==
    \E key \in DOMAIN student_progress :
       \E i \in 1..Len(student_progress[key].scores) :
          student_progress[key].scores[i] = [n |-> 100, d |-> 1]

\* C32: the perfect_score achievement is in the student's unlocked set only
\* if the student has submitted at least one quiz scored at 100 percent.
C32_PerfectScoreNeedsPerfectQuiz ==
    Contains(student.achievements, "perfect_score") => PerfectQuizOnRecord

\* C33: for a freshly created student, in every state reachable through
\* award_coins, spend_coins, purchase_perk and update_activity, the
\* spendable balance never exceeds the lifetime total.
C33_BalanceWithinLifetimeTotal == student.current_coins <= student.total_coins

\* C34: for a freshly created student, in every state reachable through
\* award_coins, spend_coins, purchase_perk and update_activity, total_coins
\* is 100 plus experience_points plus the reward_coins of the unlocked
\* achievements.
C34_LifetimeTotalIsXpPlusRewards ==
    student.total_coins
      = NewStudent(0).total_coins + student.experience_points
          + SumRewards(student.achievements)

\* a student who has levelled up, unlocked an achievement and spent coins
C34_Witness ==
    /\ student.level >= 2
    /\ student.achievements # <<>>
    /\ student.owned_perks # <<>>
    /\ student.total_coins
         = 100 + student.experience_points + SumRewards(student.achievements)

\* C35: when award_coins returns, no achievement remains locked whose
\* requirement is satisfied by the ledger's final state.
C35_NoSatisfiedAchievementStaysLocked ==
    [][ call'.op = "award_coins" =>
          \A i \in 1..Len(achievements) :
             _check_achievement_requirement(student', achievements[i])
               => Contains(student'.achievements, achievements[i].id) ]_vars

\* C36: the current_coins and level that submit_quiz returns are the
\* ledger's current_coins and level at the moment it returns.
C36_SubmitReturnsLedgerValues ==
    (call.op = "submit_quiz" /\ call.error = "") =>
        /\ call.current_coins = student.current_coins
        /\ call.level = student.level

\* the counters of a topic in the progress record of a subject and grade
TopicCounters(progress_all, key, topic) ==
    IF key \in DOMAIN progress_all
         /\ topic \in DOMAIN progress_all[key].topic_performance
    THEN progress_all[key].topic_performance[topic]
    ELSE [correct |-> 0, total |-> 0]

\* C37: each score_quiz call raises the per-topic total counters of the
\* progress record by the number of session questions of the topic and the
\* correct counters by the number answered correctly; unanswered questions
\* count as attempted and incorrect, as in the topics_performance breakdown
\* the call returns.
C37_TopicCountersFollowBreakdown ==
    [][ (call'.op = "score_quiz" /\ call'.result.exception = "") =>
          LET quiz_session == call'.args.quiz_session
              key == <<quiz_session.subject, quiz_session.grade>>
              breakdown == call'.result.topics_performance
          IN  \A topic \in DOMAIN breakdown :
                 /\ TopicCounters(student_progress', key, topic).total
                      = TopicCounters(student_progress, key, topic).total
                          + breakdown[topic].total
                 /\ TopicCounters(student_progress', key, topic).correct
                      = TopicCounters(student_progress, key, topic).correct
                          + breakdown[topic].correct ]_vars

\* C38: for every metric passed to get_leaderboard the score of each entry
\* is the value the students were sorted by, so the scores are
\* non-increasing from rank 1 downwards.
C38_ScoresNonIncreasingForEveryMetric ==
    call.op = "get_leaderboard" =>
        \A i, j \in 1..Len(call.result) :
           i < j => call.result[i].score >= call.result[j].score

(***************************************************************************)
(* SpecMonitor: the attention monitor (src/backend/attention_monitor.py).  *)
(* One thread calls start_monitoring and stop_monitoring one after the     *)
(* other; every start that opens the camera creates a _monitoring_loop     *)
(* thread.  The loop threads and the calling thread interleave freely.     *)
(* stop_monitoring waits in join(timeout=2.0): the wait ends when the      *)
(* thread has returned, or after two seconds with the thread still alive   *)
(* (the loop body blocks in camera.read(), in a callback, or sleeps one    *)
(* second after an exception).  The values of the metrics depend on the    *)
(* wall clock and are left out; attention_history is kept as its length.   *)
(***************************************************************************)
UnchangedCore ==
    UNCHANGED <<student, today, current_session, student_progress,
                game_state, requests, files>>

\* deque(maxlen=100)
HistoryMaxlen == 100

\* what cv2.VideoCapture(camera_index) gives: an opened capture, a capture
\* that is not opened, or an exception while the properties are set
CameraOutcomes == {"opened", "not_opened", "error"}

\* a thread that was started and has not returned from _monitoring_loop
Running(t) == loops[t] \in {"test", "body"}

\* the Thread objects that were never created
Unborn == {t \in LoopThreads : loops[t] = "unborn"}

\* the result of a monitor call, recorded when the call returns
MonitorCall(op, ok) == [NoCall EXCEPT !.op = op, !.ok = ok]

\* start_monitoring(camera_index) up to its return or, on an exception, up
\* to the join inside the stop_monitoring() of its except branch
start_monitoringOf(m, webcam_enabled, outcome, thread) ==
    IF ~webcam_enabled THEN [monitor |-> m, ok |-> FALSE, started |-> 0, joins |-> FALSE]
    ELSE IF m.is_monitoring THEN [monitor |-> m, ok |-> TRUE, started |-> 0, joins |-> FALSE]
    ELSE IF outcome = "not_opened"
      THEN [ monitor |-> [m EXCEPT !.camera = "not_opened"],
             ok |-> FALSE, started |-> 0, joins |-> FALSE ]
    ELSE IF outcome = "error"
      THEN [ monitor |-> [m EXCEPT !.camera = "opened", !.is_monitoring = FALSE],
             ok |-> FALSE, started |-> 0, joins |-> TRUE ]
    ELSE [ monitor |-> [m EXCEPT !.camera = "opened", !.is_monitoring = TRUE,
                                 !.monitoring_thread = thread],
           ok |-> TRUE, started |-> thread, joins |-> FALSE ]

StartMonitoring ==
    /\ caller = "idle"
    /\ Unborn # {}
    /\ \E webcam_enabled \in BOOLEAN, outcome \in CameraOutcomes :
         \E thread \in {CHOOSE t \in Unborn : \A u \in Unborn : t <= u} :
           \E r \in {start_monitoringOf(attention_monitor, webcam_enabled, outcome, thread)} :
             /\ attention_monitor' = r.monitor
             /\ loops' = IF r.started = 0 THEN loops
                         ELSE [loops EXCEPT ![r.started] = "test"]
             /\ caller' = IF r.joins THEN "start_join" ELSE "idle"
             /\ call' = IF r.joins THEN call
                        ELSE MonitorCall("start_monitoring", r.ok)
    /\ UnchangedCore

\* stop_monitoring() up to its join
StopMonitoring ==
    /\ caller = "idle"
    /\ attention_monitor' = [attention_monitor EXCEPT !.is_monitoring = FALSE]
    /\ caller' = "stop_join"
    /\ UNCHANGED <<loops, call>>
    /\ UnchangedCore

\* the rest of stop_monitoring(): the camera is released and forgotten
release_camera(m) == [m EXCEPT !.camera = "None"]

\* the call that is waiting in join returns: stop_monitoring returns None,
\* the start_monitoring that stopped after an exception returns False
ReturnFromJoin ==
    /\ attention_monitor' = release_camera(attention_monitor)
    /\ call' = IF caller = "stop_join" THEN MonitorCall("stop_monitoring", TRUE)
               ELSE MonitorCall("start_monitoring", FALSE)
    /\ caller' = "idle"
    /\ UNCHANGED loops
    /\ UnchangedCore

\* join is skipped (no thread yet) or finds the thread returned
JoinReturns ==
    /\ caller \in {"stop_join", "start_join"}
    /\ \/ attention_monitor.monitoring_thread = 0
       \/ /\ attention_monitor.monitoring_thread # 0
          /\ ~Running(attention_monitor.monitoring_thread)
    /\ ReturnFromJoin

\* two seconds pass and the thread is still inside one pass of the body
JoinTimesOut ==
    /\ caller \in {"stop_join", "start_join"}
    /\ attention_monitor.monitoring_thread # 0
    /\ loops[attention_monitor.monitoring_thread] = "body"
    /\ ReturnFromJoin

\* while self.is_monitoring:
LoopTest(t) ==
    /\ loops[t] = "test"
    /\ loops' = [loops EXCEPT ![t] = IF attention_monitor.is_monitoring
                                      THEN "body" ELSE "returned"]
    /\ UNCHANGED <<attention_monitor, caller, call>>
    /\ UnchangedCore

\* one pass of the loop body: self.camera.read() raises when the camera is
\* None and gives no frame when it is not opened (or ret is False);
\* otherwise the metrics are appended to attention_history
LoopBody(t) ==
    /\ loops[t] = "body"
    /\ \E ret \in BOOLEAN :
         attention_monitor' =
            IF attention_monitor.camera = "opened" /\ ret
            THEN [attention_monitor EXCEPT !.attention_history =
                     IF @ < HistoryMaxlen THEN @ + 1 ELSE @]
            ELSE attention_monitor
    /\ loops' = [loops EXCEPT ![t] = "test"]
    /\ UNCHANGED <<caller, call>>
    /\ UnchangedCore

NextMonitor ==
    \/ StartMonitoring
    \/ StopMonitoring
    \/ JoinReturns
    \/ JoinTimesOut
    \/ \E t \in LoopThreads : LoopTest(t)
    \/ \E t \in LoopThreads : LoopBody(t)

SpecMonitor == Init /\ [][NextMonitor]_vars

\* C39: at most one monitoring loop thread is running at any time, also
\* after a stop_monitoring whose join timed out is followed by a
\* start_monitoring.
C39_AtMostOneLoopRunning ==
    Cardinality({t \in LoopThreads : Running(t)}) <= 1

\* the loops that are inside the loop body, past the test of is_monitoring
InBody == {t \in LoopThreads : loops[t] = "body"}

\* two loops have both passed the test after the last start_monitoring
TwoLoopsInBody ==
    /\ Cardinality(InBody) >= 2
    /\ attention_monitor.is_monitoring
    /\ caller = "idle"

====
